---------------------------- MODULE Spec2Model ----------------------------
(***************************************************************************)
(* A model of the OSRS monster builder: the infobox cleaners of            *)
(* builders/monsters/infobox_cleaner.py and the BuildMonster pipeline of   *)
(* monsters_builder/monster_builder.py.                                    *)
(*                                                                         *)
(* A Python str is a sequence of one-character strings; the other Python   *)
(* values are tagged records (None, bool, int, float, list).  A call ends  *)
(* in an outcome: Return(value) or Raise(exception name).                  *)
(***************************************************************************)
EXTENDS Integers, Sequences, FiniteSets, TLC

VARIABLES
    fn,        \* name of the cleaner function called last ("" before any call)
    arg,       \* the arguments of that call, a sequence of values
    ret,       \* the outcome of that call
    stdout,    \* the lines that call printed, in order
    self,      \* the BuildMonster object: its fields
    pc,        \* how far the builder has taken the monster ("" without one)
    log        \* the records logged, in order

vars == <<fn, arg, ret, stdout, self, pc, log>>

-----------------------------------------------------------------------------
(* Bounds of the model *)

\* Inputs are concatenations of at most MaxFrags fragments of text.
MaxFrags == 2

\* The cache dump holds the monsters 1..MaxMonsterId.
MaxMonsterId == 2

\* The dates of the model carry at most MaxBrackets brackets put in anywhere
\* (and the eight of the wiki's links).
MaxBrackets == 1

\* The infoboxes differ from the full one in at most MaxEdits places.
MaxEdits == 1

\* The pages hold at most MaxDrops drop lines.
MaxDrops == 2

\* The wikitexts given to clean_wikitext are put together from at most
\* MaxPieces pieces.
MaxPieces == 3

\* The year of the clock when a date is parsed.
ClockYear == 2026

-----------------------------------------------------------------------------
(* Python values and outcomes *)

NoneVal == [t |-> "None"]
StrVal(s) == [t |-> "str", s |-> s]
BoolVal(b) == [t |-> "bool", b |-> b]
IntVal(n) == [t |-> "int", n |-> n]
ListVal(l) == [t |-> "list", l |-> l]

\* No BuildMonster object.
NoObject == [monster_id |-> 0]

Return(v) == [kind |-> "return", val |-> v]
Raise(e) == [kind |-> "raise", exc |-> e]

\* Python truthiness of an optional str: `not value` holds for None and "".
Falsy(v) == v.t = "None" \/ (v.t = "str" /\ v.s = <<>>)

-----------------------------------------------------------------------------
(* Python str built-ins, on sequences of characters *)

Digits == {"0", "1", "2", "3", "4", "5", "6", "7", "8", "9"}

\* The characters str.strip() removes that the inputs of the model use.
Whitespace == {" ", "\n", "\t"}

UpperToLower ==
    [c \in {"A","B","C","D","E","F","G","H","I","J","K","L","M","N","O","P",
            "Q","R","S","T","U","V","W","X","Y","Z"} |->
        CASE c = "A" -> "a" [] c = "B" -> "b" [] c = "C" -> "c" [] c = "D" -> "d"
          [] c = "E" -> "e" [] c = "F" -> "f" [] c = "G" -> "g" [] c = "H" -> "h"
          [] c = "I" -> "i" [] c = "J" -> "j" [] c = "K" -> "k" [] c = "L" -> "l"
          [] c = "M" -> "m" [] c = "N" -> "n" [] c = "O" -> "o" [] c = "P" -> "p"
          [] c = "Q" -> "q" [] c = "R" -> "r" [] c = "S" -> "s" [] c = "T" -> "t"
          [] c = "U" -> "u" [] c = "V" -> "v" [] c = "W" -> "w" [] c = "X" -> "x"
          [] c = "Y" -> "y" [] c = "Z" -> "z"]

LowerCh(c) == IF c \in DOMAIN UpperToLower THEN UpperToLower[c] ELSE c

Lower(s) == [i \in DOMAIN s |-> LowerCh(s[i])]

RECURSIVE LStrip(_)
LStrip(s) == IF s # <<>> /\ Head(s) \in Whitespace THEN LStrip(Tail(s)) ELSE s

RECURSIVE RStrip(_)
RStrip(s) ==
    IF s # <<>> /\ s[Len(s)] \in Whitespace
    THEN RStrip(SubSeq(s, 1, Len(s) - 1))
    ELSE s

Strip(s) == RStrip(LStrip(s))

\* s[a:b] with 0 <= a, as Python slices (clamped to the string).
Slice(s, a, b) == SubSeq(s, a + 1, IF b > Len(s) THEN Len(s) ELSE b)

\* s[a:]
SliceFrom(s, a) == SubSeq(s, a + 1, Len(s))

\* s has sub at the 0-based offset i.
HasAt(s, sub, i) == i + Len(sub) <= Len(s) /\ SubSeq(s, i + 1, i + Len(sub)) = sub

\* s.find(sub): the 0-based offset of the first occurrence, or -1.
Find(s, sub) ==
    LET hits == {i \in 0..Len(s) : HasAt(s, sub, i)}
    IN IF hits = {} THEN -1 ELSE CHOOSE i \in hits : \A j \in hits : i <= j

\* sub in s
Contains(s, sub) == Find(s, sub) # -1

\* s.replace(old, new), old not empty: leftmost occurrences, not overlapping.
RECURSIVE Replace(_, _, _)
Replace(s, old, new) ==
    LET i == Find(s, old)
    IN IF i = -1 THEN s
       ELSE Slice(s, 0, i) \o new \o Replace(SliceFrom(s, i + Len(old)), old, new)

\* s.split(sep), sep not empty.
RECURSIVE Split(_, _)
Split(s, sep) ==
    LET i == Find(s, sep)
    IN IF i = -1 THEN <<s>>
       ELSE <<Slice(s, 0, i)>> \o Split(SliceFrom(s, i + Len(sep)), sep)

\* s.isdigit(): not empty and every character a digit.
IsDigitStr(s) == s # <<>> /\ \A i \in 1..Len(s) : s[i] \in Digits

\* str(value) of an optional str.
StrOf(v) == IF v.t = "None" THEN <<"N", "o", "n", "e">> ELSE v.s

-----------------------------------------------------------------------------
(* clean_wikitext: the four regular-expression substitutions *)

\* re.sub(r'[\[\]]+', '', value)
SubBrackets(s) == SelectSeq(s, LAMBDA c : c \notin {"[", "]"})

\* The length of the match of r' \([^()]*\)' at the start of s, 0 when none.
ParenMatchLen(s) ==
    IF Len(s) >= 3 /\ s[1] = " " /\ s[2] = "("
    THEN LET parens == {k \in 3..Len(s) : s[k] \in {"(", ")"}}
         IN IF parens = {} THEN 0
            ELSE LET k == CHOOSE x \in parens : \A y \in parens : x <= y
                 IN IF s[k] = ")" THEN k ELSE 0
    ELSE 0

\* re.sub(r' \([^()]*\)', '', value): one left-to-right pass.
RECURSIVE SubParen(_)
SubParen(s) ==
    IF s = <<>> THEN <<>>
    ELSE LET m == ParenMatchLen(s)
         IN IF m > 0 THEN SubParen(SliceFrom(s, m))
            ELSE <<Head(s)>> \o SubParen(Tail(s))

\* The length of the match of r'<!--(.*?)-->' at the start of s, 0 when none:
\* the nearest "-->" after the opening, with no line break before it.
CommentMatchLen(s) ==
    IF HasAt(s, <<"<", "!", "-", "-">>, 0)
    THEN LET ends == {j \in 4..Len(s) :
                        /\ HasAt(s, <<"-", "-", ">">>, j)
                        /\ \A k \in 5..j : s[k] # "\n"}
         IN IF ends = {} THEN 0
            ELSE (CHOOSE j \in ends : \A k \in ends : j <= k) + 3
    ELSE 0

\* re.sub(r'<!--(.*?)-->', '', value)
RECURSIVE SubComment(_)
SubComment(s) ==
    IF s = <<>> THEN <<>>
    ELSE LET m == CommentMatchLen(s)
         IN IF m > 0 THEN SubComment(SliceFrom(s, m))
            ELSE <<Head(s)>> \o SubComment(Tail(s))

\* The length of the match of r'<br(.*)' at the start of s, 0 when none: "<br"
\* and the rest of its line.
BrMatchLen(s) ==
    IF HasAt(s, <<"<", "b", "r">>, 0)
    THEN LET nls == {k \in 4..Len(s) : s[k] = "\n"}
         IN IF nls = {} THEN Len(s)
            ELSE (CHOOSE k \in nls : \A j \in nls : k <= j) - 1
    ELSE 0

\* re.sub(r'<br(.*)', '', value)
RECURSIVE SubBr(_)
SubBr(s) ==
    IF s = <<>> THEN <<>>
    ELSE LET m == BrMatchLen(s)
         IN IF m > 0 THEN SubBr(SliceFrom(s, m))
            ELSE <<Head(s)>> \o SubBr(Tail(s))

\* clean_wikitext(value), value an optional str; the result is a str.
clean_wikitext(v) == SubBr(SubComment(SubParen(SubBrackets(Strip(StrOf(v))))))

-----------------------------------------------------------------------------
(* int() and float() of a str *)

DigitValue ==
    [c \in Digits |->
        CASE c = "0" -> 0 [] c = "1" -> 1 [] c = "2" -> 2 [] c = "3" -> 3
          [] c = "4" -> 4 [] c = "5" -> 5 [] c = "6" -> 6 [] c = "7" -> 7
          [] c = "8" -> 8 [] c = "9" -> 9]

\* The number a not empty string of digits denotes.
RECURSIVE DigitsToNat(_)
DigitsToNat(s) ==
    IF s = <<>> THEN 0
    ELSE 10 * DigitsToNat(SubSeq(s, 1, Len(s) - 1)) + DigitValue[s[Len(s)]]

\* int(s): surrounding whitespace and one sign are accepted, then digits only.
\* [ok |-> FALSE] stands for ValueError.
ParseInt(s) ==
    LET t == Strip(s)
        signed == t # <<>> /\ Head(t) \in {"+", "-"}
        body == IF signed THEN Tail(t) ELSE t
    IN IF IsDigitStr(body)
       THEN [ok |-> TRUE,
             n |-> IF signed /\ Head(t) = "-" THEN 0 - DigitsToNat(body)
                   ELSE DigitsToNat(body)]
       ELSE [ok |-> FALSE]

\* A float as its decimal digits: num / 10^frac, without trailing zeros in the
\* fraction.
RECURSIVE FloatNorm(_, _)
FloatNorm(num, frac) ==
    IF frac > 0 /\ num % 10 = 0 THEN FloatNorm(num \div 10, frac - 1)
    ELSE [t |-> "float", num |-> num, frac |-> frac]

\* float(s) for decimal notation: whitespace, one sign, digits with at most one
\* point and at least one digit.  [ok |-> FALSE] stands for ValueError.
ParseFloat(s) ==
    LET t == Strip(s)
        signed == t # <<>> /\ Head(t) \in {"+", "-"}
        body == IF signed THEN Tail(t) ELSE t
        p == Find(body, <<".">>)
        whole == IF p = -1 THEN body ELSE Slice(body, 0, p)
        fract == IF p = -1 THEN <<>> ELSE SliceFrom(body, p + 1)
        digs == whole \o fract
    IN IF IsDigitStr(digs)
       THEN [ok |-> TRUE,
             f |-> FloatNorm(IF signed /\ Head(t) = "-" THEN 0 - DigitsToNat(digs)
                             ELSE DigitsToNat(digs), Len(fract))]
       ELSE [ok |-> FALSE]

-----------------------------------------------------------------------------
(* The normalizers of infobox_cleaner.py.  Each takes an optional str and    *)
(* gives an outcome.                                                         *)

\* ["true", "yes"]
TrueWords == {<<"t", "r", "u", "e">>, <<"y", "e", "s">>}

\* The test as it would be with lower() called on the first word.
FirstWordIsTrue_Called(c) == Lower(Split(c, <<" ">>)[1]) \in TrueWords

\* value.split(" ")[0].lower in ["true", "yes"]: the bound method `lower` is
\* compared to the strings (it is never called), so the test is false for
\* every value.
FirstWordIsTrue(c) == FALSE

members(v) ==
    IF v.t = "None" THEN Return(BoolVal(FALSE))            \* AttributeError
    ELSE Return(BoolVal(Lower(v.s) \in TrueWords))

aggressive(v) ==
    LET c == clean_wikitext(v)
    IN IF Lower(c) \in TrueWords THEN Return(BoolVal(TRUE))
       ELSE IF FirstWordIsTrue(c) THEN Return(BoolVal(TRUE))
       ELSE Return(BoolVal(FALSE))

poisonous(v) ==
    IF Falsy(v) THEN Return(BoolVal(FALSE))
    ELSE LET c == clean_wikitext(v)
         IN IF Lower(c) \in TrueWords THEN Return(BoolVal(TRUE))
            ELSE IF FirstWordIsTrue(c) THEN Return(BoolVal(TRUE))
            ELSE Return(BoolVal(FALSE))

venomous(v) ==
    IF Falsy(v) THEN Return(BoolVal(FALSE))
    ELSE Return(BoolVal(Contains(Lower(v.s), <<"v", "e", "n", "o", "m">>)))

immune_poison(v) ==
    IF Falsy(v) THEN Return(BoolVal(FALSE))
    ELSE Return(BoolVal(Lower(v.s) \in TrueWords))

immune_venom(v) ==
    IF Falsy(v) THEN Return(BoolVal(FALSE))
    ELSE Return(BoolVal(Lower(v.s) \in TrueWords))

hitpoints(v) ==
    IF Falsy(v) THEN Return(NoneVal)
    ELSE LET p == ParseInt(v.s)
         IN IF p.ok THEN Return(IntVal(p.n)) ELSE Return(NoneVal)

\* re.split("[ ,]", value)[0]: the text before the first space or comma.
BeforeSpaceOrComma(s) ==
    LET cuts == {i \in 1..Len(s) : s[i] \in {" ", ","}}
    IN IF cuts = {} THEN s
       ELSE SubSeq(s, 1, (CHOOSE i \in cuts : \A j \in cuts : i <= j) - 1)

max_hit(v) ==
    IF Falsy(v) THEN Return(NoneVal)
    ELSE LET p == ParseInt(BeforeSpaceOrComma(v.s))
         IN IF p.ok THEN Return(IntVal(p.n)) ELSE Return(NoneVal)

attack_speed(v) ==
    IF Falsy(v) THEN Return(NoneVal)
    ELSE LET p == ParseInt(v.s)
         IN IF p.ok THEN Return(IntVal(p.n)) ELSE Return(NoneVal)

slayer_level(v) ==
    IF Falsy(v) THEN Return(NoneVal)
    ELSE LET p == ParseInt(v.s)
         IN IF p.ok THEN Return(IntVal(p.n)) ELSE Return(NoneVal)

slayer_xp(v) ==
    IF Falsy(v) THEN Return(NoneVal)
    ELSE LET p == ParseFloat(clean_wikitext(v))
         IN IF p.ok THEN Return(p.f) ELSE Return(NoneVal)

\* int(None) raises TypeError, which `except ValueError` does not catch.
stats(v) ==
    IF v.t = "None" THEN Raise("TypeError")
    ELSE LET p == ParseInt(v.s)
         IN IF p.ok THEN Return(IntVal(p.n)) ELSE Return(IntVal(0))

-----------------------------------------------------------------------------
(* The list normalizers *)

\* A scan that tests the text for equality with a term, not for containing it.
ScanVocabulary_Exact(vocab, s) == SelectSeq(vocab, LAMBDA t : t = s)

\* The terms of the vocabulary (in its order) that occur in s.
RECURSIVE ScanVocabulary(_, _)
ScanVocabulary(vocab, s) ==
    IF vocab = <<>> THEN <<>>
    ELSE (IF Contains(s, Head(vocab)) THEN <<Head(vocab)>> ELSE <<>>)
         \o ScanVocabulary(Tail(vocab), s)

\* The strings attack_type looks for, in the order of its tests.
AttackTypeVocabulary ==
    <<<<"m", "e", "l", "e", "e">>,
      <<"s", "l", "a", "s", "h">>,
      <<"c", "r", "u", "s", "h">>,
      <<"s", "t", "a", "b">>,
      <<"r", "a", "n", "g", "e", "d">>,
      <<"m", "a", "g", "i", "c">>,
      <<"t", "y", "p", "e", "l", "e", "s", "s">>,
      <<"d", "r", "a", "g", "o", "n", "f", "i", "r", "e">>>>

attack_type(v) ==
    IF v.t = "None" \/ v.s = <<>> THEN Return(ListVal(<<>>))
    ELSE Return(ListVal(ScanVocabulary(AttackTypeVocabulary,
                                       SubBrackets(Lower(v.s)))))

\* The strings attributes looks for, in the order of its tests.
AttributesVocabulary ==
    <<<<"d", "e", "m", "o", "n">>,
      <<"d", "r", "a", "g", "o", "n">>,
      <<"f", "i", "e", "r", "y">>,
      <<"g", "o", "l", "e", "m">>,
      <<"k", "a", "l", "p", "h", "i", "t", "e">>,
      <<"l", "e", "a", "f", "y">>,
      <<"p", "e", "n", "a", "n", "c", "e">>,
      <<"s", "h", "a", "d", "e">>,
      <<"s", "p", "e", "c", "t", "r", "a", "l">>,
      <<"u", "n", "d", "e", "a", "d">>,
      <<"v", "a", "m", "p", "y", "r", "e">>,
      <<"x", "e", "r", "i", "c", "i", "a", "n">>>>

attributes(v) ==
    IF v.t = "None" \/ v.s = <<>> THEN Return(ListVal(<<>>))
    ELSE Return(ListVal(ScanVocabulary(AttributesVocabulary, Lower(v.s))))

\* [v.strip() for v in parts]
StripEach(parts) == [i \in DOMAIN parts |-> Strip(parts[i])]

\* [x.lower() for x in parts]
LowerEach(parts) == [i \in DOMAIN parts |-> Lower(parts[i])]

category(v) ==
    IF \/ v.t = "None"
       \/ v.s = <<>>
       \/ Lower(v.s) = <<"n", "o">>
       \/ Contains(v.s, <<"<", "!", "-", "-">>)
    THEN Return(ListVal(<<>>))
    ELSE LET c == Replace(Lower(clean_wikitext(v)),
                          <<"d", "a", "g", "a", "n", "n", "o", "t", "h", "s">>,
                          <<"d", "a", "g", "a", "n", "n", "o", "t", "h">>)
             piped == IF Contains(c, <<"|">>) THEN Split(c, <<"|">>)[2] ELSE c
         IN IF Contains(piped, <<",">>)
            THEN Return(ListVal(StripEach(Split(piped, <<",">>))))
            ELSE Return(ListVal(<<piped>>))

\* list.remove(x): the list without the first element equal to x.
RemoveFirst(l, x) ==
    LET i == CHOOSE k \in 1..Len(l) : l[k] = x /\ \A j \in 1..(k - 1) : l[j] # x
    IN SubSeq(l, 1, i - 1) \o SubSeq(l, i + 1, Len(l))

\* x in l
InList(l, x) == \E i \in 1..Len(l) : l[i] = x

\* None.strip() raises AttributeError.
slayer_masters(v) ==
    IF v.t = "None" THEN Raise("AttributeError")
    ELSE LET s == Strip(v.s)
             names == LowerEach(StripEach(Split(s, <<",">>)))
             steve == <<"s", "t", "e", "v", "e">>
             nieve == <<"n", "i", "e", "v", "e">>
         IN IF HasAt(Lower(s), <<"n", "o">>, 0) \/ s = <<>>
            THEN Return(ListVal(<<>>))
            ELSE IF InList(names, steve)
            THEN LET rest == RemoveFirst(names, steve)
                 IN Return(ListVal(IF InList(rest, nieve) THEN rest
                                   ELSE Append(rest, nieve)))
            ELSE Return(ListVal(names))

\* The characters re.sub(r'[{}\*"]', '', value) removes.
ExamineMarkup == {"{", "}", "*", "\""}

\* The three characters of the mis-decoded ellipsis examine replaces by "...".
Mojibake == <<"U+00E2", "U+20AC", "U+00A6">>

\* The length of the match of r"'{2,}[^']+[']*" at the start of s, 0 when none:
\* two or more apostrophes, one or more other characters, any apostrophes.
QuoteMatchLen(s) ==
    LET RunLen(from, quote) ==
            LET stops == {k \in from..Len(s) : (s[k] = "'") # quote}
            IN (IF stops = {} THEN Len(s) + 1
                ELSE CHOOSE k \in stops : \A j \in stops : k <= j) - from
        q == RunLen(1, TRUE)
        r == RunLen(1 + q, FALSE)
        e == RunLen(1 + q + r, TRUE)
    IN IF q >= 2 /\ r >= 1 THEN q + r + e ELSE 0

\* re.sub(r"'{2,}[^']+[']*", '', value)
RECURSIVE SubQuoted(_)
SubQuoted(s) ==
    IF s = <<>> THEN <<>>
    ELSE LET m == QuoteMatchLen(s)
         IN IF m > 0 THEN SubQuoted(SliceFrom(s, m))
            ELSE <<Head(s)>> \o SubQuoted(Tail(s))

\* str(None) is "None": examine(None) returns that text.
examine(v) ==
    LET line == Split(clean_wikitext(v), <<"\n">>)[1]
        bare == SelectSeq(line, LAMBDA c : c \notin ExamineMarkup)
        dots == Replace(bare, Mojibake, <<".", ".", ".">>)
    IN Return(StrVal(Strip(SubQuoted(dots))))

-----------------------------------------------------------------------------
(* The inputs of the model: texts put together from a few fragments *)

\* The concatenations of at most n fragments of F.
RECURSIVE Concats(_, _)
Concats(F, n) ==
    IF n = 0 THEN {<<>>}
    ELSE LET prev == Concats(F, n - 1)
         IN prev \cup {p \o f : p \in prev, f \in F}

\* None and the texts over F.
TextInputs(F) == {NoneVal} \cup {StrVal(s) : s \in Concats(F, MaxFrags)}

BoolFrags ==
    {<<"y", "e", "s">>,
     <<"Y", "e", "s">>,
     <<"T", "R", "U", "E">>,
     <<"t", "r", "u", "e">>,
     <<" ", "n", "o">>,
     <<" ">>,
     <<"[">>,
     <<"]">>,
     <<" ", "(", "x", ")">>,
     <<"<", "b", "r", ">">>,
     <<"v", "e", "n", "o", "m">>}

NumFrags ==
    {<<"1">>,
     <<"2", "0">>,
     <<"-">>,
     <<".">>,
     <<" ">>,
     <<",">>,
     <<"x">>,
     <<" ", "(", "x", ")">>,
     <<"[">>}

TypeFrags ==
    {<<"M", "e", "l", "e", "e">>,
     <<"s", "l", "a", "s", "h">>,
     <<"m", "a", "g">>,
     <<"i", "c">>,
     <<"d", "r", "a", "g", "o", "n">>,
     <<"f", "i", "r", "e">>,
     <<"[">>,
     <<"]">>,
     <<",", " ">>}

AttributeFrags ==
    {<<"D", "e", "m", "o", "n">>,
     <<"d", "r", "a", "g", "o", "n">>,
     <<"f", "i">>,
     <<"e", "r", "y">>,
     <<"u", "n">>,
     <<"d", "e", "a", "d">>,
     <<"s", "h", "a", "d", "e">>,
     <<",", " ">>}

CategoryFrags ==
    {<<"d", "r", "a", "g", "o", "n">>,
     <<"D", "e", "m", "o", "n">>,
     <<",">>,
     <<",", " ">>,
     <<"a", "|">>,
     <<"n", "o">>,
     <<" ", "(", "x", ")">>,
     <<"<", "!", "-", "-">>,
     <<"d", "a", "g", "a", "n", "n", "o", "t", "h", "s">>}

MasterFrags ==
    {<<"s", "t", "e", "v", "e">>,
     <<"S", "t", "e", "v", "e">>,
     <<"n", "i", "e", "v", "e">>,
     <<"t", "u", "r", "a", "e", "l">>,
     <<",">>,
     <<",", "s", "t", "e", "v", "e">>,
     <<" ">>,
     <<"n", "o">>}

ExamineFrags ==
    {<<"I", "t">>,
     <<"'", "'">>,
     <<"'">>,
     <<"a", ".">>,
     <<"\n">>,
     <<"{">>,
     <<"\"">>,
     Mojibake,
     <<" ", "(", "x", ")">>,
     <<" ">>}

-----------------------------------------------------------------------------
(* Calls of the cleaners.  The input of the call is drawn first; a call      *)
(* records the function, its outcome and what it printed.                    *)

BoolInputs == TextInputs(BoolFrags)
NumInputs == TextInputs(NumFrags)
TypeInputs == TextInputs(TypeFrags)
AttributeInputs == TextInputs(AttributeFrags)
CategoryInputs == TextInputs(CategoryFrags)
MasterInputs == TextInputs(MasterFrags)
ExamineInputs == TextInputs(ExamineFrags)

Call(f, r, printed) ==
    /\ fn = ""
    /\ fn' = f
    /\ ret' = r
    /\ stdout' = printed
    /\ UNCHANGED <<arg, self, pc, log>>

CallMembers ==
    /\ arg[1] \in BoolInputs
    /\ Call("members", members(arg[1]), <<>>)

CallAggressive ==
    /\ arg[1] \in BoolInputs
    /\ Call("aggressive", aggressive(arg[1]), <<>>)

CallPoisonous ==
    /\ arg[1] \in BoolInputs
    /\ Call("poisonous", poisonous(arg[1]), <<>>)

CallVenomous ==
    /\ arg[1] \in BoolInputs
    /\ Call("venomous", venomous(arg[1]), <<>>)

CallImmunePoison ==
    /\ arg[1] \in BoolInputs
    /\ Call("immune_poison", immune_poison(arg[1]), <<>>)

CallImmuneVenom ==
    /\ arg[1] \in BoolInputs
    /\ Call("immune_venom", immune_venom(arg[1]), <<>>)

CallHitpoints ==
    /\ arg[1] \in NumInputs
    /\ Call("hitpoints", hitpoints(arg[1]), <<>>)

CallMaxHit ==
    /\ arg[1] \in NumInputs
    /\ Call("max_hit", max_hit(arg[1]), <<>>)

CallAttackSpeed ==
    /\ arg[1] \in NumInputs
    /\ Call("attack_speed", attack_speed(arg[1]), <<>>)

CallSlayerLevel ==
    /\ arg[1] \in NumInputs
    /\ Call("slayer_level", slayer_level(arg[1]), <<>>)

CallSlayerXp ==
    /\ arg[1] \in NumInputs
    /\ Call("slayer_xp", slayer_xp(arg[1]), <<>>)

CallStats ==
    /\ arg[1] \in NumInputs
    /\ Call("stats", stats(arg[1]), <<>>)

CallAttackType ==
    /\ arg[1] \in TypeInputs
    /\ Call("attack_type", attack_type(arg[1]), <<>>)

CallAttributes ==
    /\ arg[1] \in AttributeInputs
    /\ Call("attributes", attributes(arg[1]), <<>>)

CallCategory ==
    /\ arg[1] \in CategoryInputs
    /\ Call("category", category(arg[1]), <<>>)

CallSlayerMasters ==
    /\ arg[1] \in MasterInputs
    /\ Call("slayer_masters", slayer_masters(arg[1]), <<>>)

CallExamine ==
    /\ arg[1] \in ExamineInputs
    /\ Call("examine", examine(arg[1]), <<>>)

InitNormalizers ==
    /\ fn = ""
    /\ arg \in {<<v>> : v \in BoolInputs \cup NumInputs \cup TypeInputs
                                \cup AttributeInputs \cup CategoryInputs
                                \cup MasterInputs \cup ExamineInputs}
    /\ ret = Return(NoneVal)
    /\ stdout = <<>>
    /\ self = NoObject
    /\ pc = ""
    /\ log = <<>>

NextNormalizers ==
    \/ CallMembers
    \/ CallAggressive
    \/ CallPoisonous
    \/ CallVenomous
    \/ CallImmunePoison
    \/ CallImmuneVenom
    \/ CallHitpoints
    \/ CallMaxHit
    \/ CallAttackSpeed
    \/ CallSlayerLevel
    \/ CallSlayerXp
    \/ CallStats
    \/ CallAttackType
    \/ CallAttributes
    \/ CallCategory
    \/ CallSlayerMasters
    \/ CallExamine

\* The normalizer registry: any one normalizer called on any input.
SpecNormalizers == InitNormalizers /\ [][NextNormalizers]_vars

-----------------------------------------------------------------------------
(* The boolean normalizers *)

BooleanExact == {"members", "immune_poison", "immune_venom"}
BooleanCleaned == {"aggressive", "poisonous"}

\* The input is a str that is, in lower case, "true" or "yes".
IsTrueWord(v) == v.t = "str" /\ Lower(v.s) \in TrueWords

\* C1 (as stated): each of the five boolean normalizers gives true exactly for
\* the inputs that are case-insensitively equal to "true" or "yes", and false
\* for every other input, the empty string and None included.
C1_TrueIffInputIsTrueWord ==
    fn \in BooleanExact \cup BooleanCleaned
        => ret = Return(BoolVal(IsTrueWord(arg[1])))

\* C1 (amended): members, immune_poison and immune_venom give true exactly for
\* the inputs case-insensitively equal to "true" or "yes"; aggressive and
\* poisonous give true exactly for the inputs whose generically cleaned text
\* (trimmed, without square brackets, " (...)" annotations, comments and
\* "<br" to the end of the line) is case-insensitively equal to "true" or
\* "yes".  Every other input, the empty string and None included, gives false.
C1_BooleanNormalizers ==
    /\ fn \in BooleanExact => ret = Return(BoolVal(IsTrueWord(arg[1])))
    /\ fn \in BooleanCleaned =>
           ret = Return(BoolVal(/\ arg[1].t = "str"
                                /\ Lower(clean_wikitext(arg[1])) \in TrueWords))
    /\ fn \in BooleanExact \cup BooleanCleaned /\ IsTrueWord(arg[1])
           => ret = Return(BoolVal(TRUE))
    /\ fn \in BooleanExact \cup BooleanCleaned /\ Falsy(arg[1])
           => ret = Return(BoolVal(FALSE))

\* aggressive has answered true for a text that is not itself "true" or "yes".
C1_Witness ==
    /\ fn = "aggressive"
    /\ arg[1].t = "str"
    /\ ~IsTrueWord(arg[1])
    /\ ret = Return(BoolVal(TRUE))

-----------------------------------------------------------------------------
(* The names of slayer_masters *)

\* The names of a text: its comma-separated entries, trimmed and lower-cased.
NamesOf(text) == LowerEach(StripEach(Split(text, <<",">>)))
Steve == <<"s", "t", "e", "v", "e">>
Nieve == <<"n", "i", "e", "v", "e">>
Occurrences(l, x) == Cardinality({i \in DOMAIN l : l[i] = x})

\* C23: for every text, slayer_masters returns a list of trimmed, lower-cased
\* names of the text, with "nieve" for the alias "steve": no entry of the list
\* is "steve", "nieve" is in the list when "steve" is a name of the text, and
\* no "nieve" is added when "nieve" is a name of the text.
C23_SteveBecomesNieve ==
    (fn = "slayer_masters" /\ arg[1].t = "str") =>
        /\ ret.kind = "return"
        /\ \A i \in DOMAIN ret.val.l :
              /\ ret.val.l[i] # Steve
              /\ \/ InList(NamesOf(arg[1].s), ret.val.l[i])
                 \/ (ret.val.l[i] = Nieve /\ InList(NamesOf(arg[1].s), Steve))
        /\ InList(NamesOf(arg[1].s), Steve) => InList(ret.val.l, Nieve)
        /\ InList(NamesOf(arg[1].s), Nieve) =>
              Occurrences(ret.val.l, Nieve) = Occurrences(NamesOf(arg[1].s), Nieve)

-----------------------------------------------------------------------------
(* clean_wikitext on its own *)

\* Pieces of wikitext: text, the parts of a parenthetical annotation, link
\* brackets, the ends of a comment, a line-break tag, a line break, a space.
WikitextPieces ==
    {<<"a">>,
     <<"a", " ", "(">>,
     <<" ", "(", "b", ")">>,
     <<")">>,
     <<"[">>,
     <<"]">>,
     <<"<", "!", "-", "-">>,
     <<"-", "-", ">">>,
     <<"<", "b", "r">>,
     <<"\n">>,
     <<" ">>}

\* None and the wikitexts of up to MaxPieces pieces.
WikitextInputs == {NoneVal} \cup {StrVal(s) : s \in Concats(WikitextPieces, MaxPieces)}

CallCleanWikitext ==
    /\ arg[1] \in WikitextInputs
    /\ Call("clean_wikitext", Return(StrVal(clean_wikitext(arg[1]))), <<>>)

InitCleanWikitext ==
    /\ fn = ""
    /\ arg \in {<<v>> : v \in WikitextInputs}
    /\ ret = Return(NoneVal)
    /\ stdout = <<>>
    /\ self = NoObject
    /\ pc = ""
    /\ log = <<>>

NextCleanWikitext == CallCleanWikitext

\* clean_wikitext called on any wikitext.
SpecCleanWikitext == InitCleanWikitext /\ [][NextCleanWikitext]_vars

\* The places of a text, counted from 0.
Places(text) == 0..(Len(text) - 1)

\* C24: for every input, the text clean_wikitext returns has no "[" and no
\* "]", no space followed by a parenthesis group without parentheses inside,
\* no comment "<!--" ... "-->", and no "<br".
C24_NoArtifactIsLeft ==
    fn = "clean_wikitext" =>
        LET cleaned == ret.val.s
        IN /\ \A i \in DOMAIN cleaned : cleaned[i] \notin {"[", "]"}
           /\ \A i \in Places(cleaned) : ParenMatchLen(SliceFrom(cleaned, i)) = 0
           /\ \A i \in Places(cleaned) : CommentMatchLen(SliceFrom(cleaned, i)) = 0
           /\ ~Contains(cleaned, <<"<", "b", "r">>)

-----------------------------------------------------------------------------
(* The enumerated-list normalizers *)

\* x in l, for the list of an outcome.
Terms(r) == {r.val.l[i] : i \in 1..Len(r.val.l)}

\* The place of a term in a vocabulary (0 when it is not one of its terms).
PlaceIn(vocab, t) ==
    IF \E i \in 1..Len(vocab) : vocab[i] = t
    THEN CHOOSE i \in 1..Len(vocab) : vocab[i] = t
    ELSE 0

\* The list holds terms of the vocabulary only, in the order of the vocabulary,
\* each at most once.
InScanOrder(vocab, l) ==
    /\ \A i \in 1..Len(l) : PlaceIn(vocab, l[i]) > 0
    /\ \A i, j \in 1..Len(l) : i < j => PlaceIn(vocab, l[i]) < PlaceIn(vocab, l[j])

\* Appending any term of the vocabulary to the input x keeps every term of
\* the output of f for x in the output.
Monotonic(f(_), vocab, x, r) ==
    \A k \in 1..Len(vocab) :
        Terms(r) \subseteq Terms(f(StrVal(x.s \o vocab[k])))

-----------------------------------------------------------------------------
(* Absent and empty inputs *)

\* The normalizers of the registry.
Registry ==
    {"members", "aggressive", "poisonous", "venomous", "immune_poison",
     "immune_venom", "hitpoints", "max_hit", "attack_speed", "slayer_level",
     "slayer_xp", "stats", "attack_type", "attributes", "category",
     "slayer_masters", "examine"}

\* Absent, and the documented defaults: false, the empty list, zero, the
\* empty text.
AbsentOrDefault ==
    {NoneVal, BoolVal(FALSE), ListVal(<<>>), IntVal(0), StrVal(<<>>)}

\* C10: every normalizer of the registry answers None or the empty string
\* with absent or its documented default, and raises nothing (stats,
\* slayer_masters, examine, hitpoints, max_hit, attack_speed, slayer_level and
\* slayer_xp included).
C10_AbsentInAbsentOut ==
    fn \in Registry /\ Falsy(arg[1]) =>
        /\ ret.kind = "return"
        /\ ret.val \in AbsentOrDefault

-----------------------------------------------------------------------------
(* tokenize_max_hit *)

\* The inner while loop of the fallback rule alone: from tokenEnd, the first
\* position that is the last of the text, or holds a character of the other
\* digit class, or holds a space.
RunEnd(text, tokenEnd) ==
    LET isNumber == text[tokenEnd + 1] \in Digits
        stops == {e \in tokenEnd..(Len(text) - 1) :
                    \/ e = Len(text) - 1
                    \/ isNumber # (text[e + 1] \in Digits)
                    \/ text[e + 1] = " "}
    IN CHOOSE e \in stops : \A x \in stops : e <= x

\* The fallback rule without the else clause of its loop.
FallbackEnd_NoLastStep(text, tokenEnd) == RunEnd(text, tokenEnd)

\* The fallback rule: the new tokenEnd after the inner while loop and its else
\* clause, which steps over the last character of the text when it is of the
\* run's digit class.
FallbackEnd(text, tokenEnd) ==
    LET isNumber == text[tokenEnd + 1] \in Digits
        e == RunEnd(text, tokenEnd)
    IN IF e = Len(text) - 1 /\ isNumber = (text[e + 1] \in Digits)
       THEN e + 1
       ELSE e

\* The rule the scan loop applies at tokenEnd < len(text): the tests of the
\* lines 451, 456 and 458, in their order.
RuleAt(text, st) ==
    LET char == text[st.tokenEnd + 1]
    IN IF char = " " THEN "space"
       ELSE IF char = "(" /\ Contains(text, <<")">>) THEN "parenthetical"
       ELSE IF /\ st.tokenEnd < Len(text) - 4
               /\ Slice(text, st.tokenEnd, st.tokenEnd + 2) = <<"{", "{">>
               /\ Contains(SliceFrom(text, st.tokenEnd), <<"}", "}">>)
       THEN "brace"
       ELSE "fallback"

\* One pass of the scan loop of tokenize_max_hit over the entry text, from the
\* loop state st = [tokenStart, tokenEnd, maxHitTokens]; tokenEnd < len(text).
\* The positions are Python's (0-based).
TokenizeStep(text, st) ==
    LET rule == RuleAt(text, st)
        newEnd ==
            IF rule = "parenthetical"
            THEN Find(SliceFrom(text, st.tokenStart), <<")">>) + st.tokenStart + 1
            ELSE IF rule = "brace"
            THEN Find(SliceFrom(text, st.tokenStart), <<"}", "}">>)
                     + st.tokenStart + 2
            ELSE FallbackEnd(text, st.tokenEnd)
        clean == SelectSeq(Slice(text, st.tokenStart, newEnd),
                           LAMBDA c : c \notin {"(", ")"})
    IN IF rule = "space"
       THEN [tokenStart |-> st.tokenEnd + 1,
             tokenEnd |-> st.tokenEnd + 1,
             maxHitTokens |-> st.maxHitTokens]
       ELSE [tokenStart |-> newEnd,
             tokenEnd |-> newEnd,
             maxHitTokens |-> Append(st.maxHitTokens, clean)]

\* The scan loop from the state st.  A pass that neither skips a space nor
\* moves tokenEnd leaves the loop where it was, appending an empty token each
\* time: the loop never ends ([done |-> FALSE]).
RECURSIVE TokenizeFrom(_, _)
TokenizeFrom(text, st) ==
    IF st.tokenEnd >= Len(text) THEN [done |-> TRUE, tokens |-> st.maxHitTokens]
    ELSE LET next == TokenizeStep(text, st)
         IN IF next.tokenEnd = st.tokenEnd THEN [done |-> FALSE]
            ELSE TokenizeFrom(text, next)

\* The tokens of one entry.
TokenizeEntry(text) ==
    TokenizeFrom(text, [tokenStart |-> 0, tokenEnd |-> 0, maxHitTokens |-> <<>>])

\* tokenize_max_hit(maxHitList): the list of the token lists of the entries,
\* or [done |-> FALSE] when the scan of an entry never ends.
tokenize_max_hit(maxHitList) ==
    IF \E i \in 1..Len(maxHitList) : ~TokenizeEntry(maxHitList[i]).done
    THEN [done |-> FALSE]
    ELSE [done |-> TRUE,
          tokens |-> [i \in 1..Len(maxHitList) |-> TokenizeEntry(maxHitList[i]).tokens]]

\* A call that never returns.
Hang == [kind |-> "hang"]

\* The outcome of calling tokenize_max_hit on a list of texts.
TokenizeOutcome(l) ==
    LET r == tokenize_max_hit(l)
    IN IF r.done THEN Return(ListVal(r.tokens)) ELSE Hang

-----------------------------------------------------------------------------
(* wiki_attack_style_to_local *)

\* The chain of comparisons of wiki_attack_style_to_local, in its order: the
\* wiki phrases of each branch and the local style it returns.
StyleTable ==
    <<[local |-> <<"m", "e", "l", "e", "e", "_", "s", "t", "a", "b">>,
       wiki |-> {<<"s", "t", "a", "b">>}],
      [local |-> <<"m", "e", "l", "e", "e", "_", "s", "l", "a", "s", "h">>,
       wiki |-> {<<"s", "l", "a", "s", "h">>,
                <<"s", "l", "a", "s", "h", " ", "m", "e", "l", "e", "e">>}],
      [local |-> <<"m", "e", "l", "e", "e", "_", "c", "r", "u", "s", "h">>,
       wiki |-> {<<"c", "r", "u", "s", "h">>}],
      [local |-> <<"m", "e", "l", "e", "e", "_", "m", "a", "g", "i", "c">>,
       wiki |-> {<<"m", "a", "g", "i", "c", "a", "l", " ", "m", "e", "l", "e", "e">>,
                <<"m", "a", "g", "i", "c", " ", "m", "e", "l", "e", "e">>}],
      [local |-> <<"m", "e", "l", "e", "e", "_", "u", "n", "k", "n", "o", "w", "n">>,
       wiki |-> {<<"m", "e", "l", "e", "e">>,
                <<"m", "e", "l", "e", "e", " ", "(", "c", "r", "u", "s", "h", "?", ")">>,
                <<"c", "r", "u", "s", "h", "(", "?", ")">>}],
      [local |-> <<"m", "a", "g", "i", "c">>,
       wiki |-> {<<"m", "a", "g", "i", "c">>}],
      [local |-> <<"m", "a", "g", "i", "c", "_", "r", "a", "n", "g", "e", "d">>,
       wiki |-> {<<"m", "a", "g", "i", "c", "a", "l", " ", "r", "a", "n", "g", "e", "d">>}],
      [local |-> <<"r", "a", "n", "g", "e", "d">>,
       wiki |-> {<<"r", "a", "n", "g", "e", "d">>,
                <<"s", "i", "n", "g", "l", "e", " ", "a", "n", "d", " ", "m", "u", "l", "t", "i", "-", "t", "a", "r", "g", "e", "t", " ", "r", "a", "n", "g", "e", "d">>}],
      [local |-> <<"r", "a", "n", "g", "e", "d", "_", "m", "e", "l", "e", "e">>,
       wiki |-> {<<"r", "a", "n", "g", "e", "d", " ", "m", "e", "l", "e", "e">>}],
      [local |-> <<"r", "a", "n", "g", "e", "d", "_", "m", "a", "g", "i", "c">>,
       wiki |-> {<<"r", "a", "n", "g", "e", "d", " ", "m", "a", "g", "i", "c">>}],
      [local |-> <<"a", "r", "e", "a", "_", "o", "f", "_", "e", "f", "f", "e", "c", "t">>,
       wiki |-> {<<"a", "r", "e", "a", " ", "o", "f", " ", "e", "f", "f", "e", "c", "t">>,
                <<"m", "a", "g", "i", "c", " ", "(", "s", "p", "e", "c", "i", "a", "l", ")">>,
                <<"v", "a", "r", "i", "o", "u", "s">>,
                <<"p", "o", "i", "s", "o", "n">>}],
      [local |-> <<"d", "r", "a", "g", "o", "n", "f", "i", "r", "e">>,
       wiki |-> {<<"d", "r", "a", "g", "o", "n", "f", "i", "r", "e">>}],
      [local |-> <<"i", "c", "y", "_", "b", "r", "e", "a", "t", "h">>,
       wiki |-> {<<"i", "c", "y", " ", "b", "r", "e", "a", "t", "h">>}],
      [local |-> <<"v", "o", "l", "c", "a", "n", "i", "c", "_", "f", "l", "a", "m", "e">>,
       wiki |-> {<<"v", "o", "l", "c", "a", "n", "i", "c", " ", "f", "l", "a", "m", "e">>}],
      [local |-> <<"n", "o", "n", "e">>,
       wiki |-> {<<"n", "o", "n", "e">>,
                <<>>}],
      [local |-> <<>>,
       wiki |-> {<<"c", "u", "r", "s", "e">>,
                <<"c", "o", "n", "f", "u", "s", "e">>}]>>

\* The local styles listed in max_hit_by_attack_style, and "none".
CanonicalStyles ==
    {<<"m", "e", "l", "e", "e", "_", "s", "t", "a", "b">>,
     <<"m", "e", "l", "e", "e", "_", "s", "l", "a", "s", "h">>,
     <<"m", "e", "l", "e", "e", "_", "c", "r", "u", "s", "h">>,
     <<"m", "e", "l", "e", "e", "_", "m", "a", "g", "i", "c">>,
     <<"m", "e", "l", "e", "e", "_", "u", "n", "k", "n", "o", "w", "n">>,
     <<"m", "a", "g", "i", "c">>,
     <<"m", "a", "g", "i", "c", "_", "r", "a", "n", "g", "e", "d">>,
     <<"r", "a", "n", "g", "e", "d">>,
     <<"r", "a", "n", "g", "e", "d", "_", "m", "e", "l", "e", "e">>,
     <<"r", "a", "n", "g", "e", "d", "_", "m", "a", "g", "i", "c">>,
     <<"i", "c", "y", "_", "b", "r", "e", "a", "t", "h">>,
     <<"d", "r", "a", "g", "o", "n", "f", "i", "r", "e">>,
     <<"v", "o", "l", "c", "a", "n", "i", "c", "_", "f", "l", "a", "m", "e">>,
     <<"a", "r", "e", "a", "_", "o", "f", "_", "e", "f", "f", "e", "c", "t">>,
     <<"n", "o", "n", "e">>}

UnrecognizedStyle == <<"u", "n", "r", "e", "c", "o", "g", "n", "i", "z", "e", "d", " ", "a", "t", "t", "a", "c", "k", " ", "s", "t", "y", "l", "e", ":", " ">>

\* A resolver that hands an unrecognized phrase back as the style.
StyleOutcome_Echo(attackStyle) ==
    LET hits == {i \in 1..Len(StyleTable) : attackStyle \in StyleTable[i].wiki}
    IN IF hits # {}
       THEN [ret |-> StyleTable[CHOOSE i \in hits : \A j \in hits : i <= j].local,
             printed |-> <<>>]
       ELSE [ret |-> attackStyle, printed |-> <<>>]

\* What wiki_attack_style_to_local returns for a str, and what it prints.
StyleOutcome(attackStyle) ==
    LET hits == {i \in 1..Len(StyleTable) : attackStyle \in StyleTable[i].wiki}
    IN IF hits # {}
       THEN [ret |-> StyleTable[CHOOSE i \in hits : \A j \in hits : i <= j].local,
             printed |-> <<>>]
       ELSE [ret |-> <<>>, printed |-> <<UnrecognizedStyle \o attackStyle>>]

\* None equals no phrase, and "..." + None raises TypeError.
wiki_attack_style_to_local(v) ==
    IF v.t = "None" THEN Raise("TypeError")
    ELSE Return(StrVal(StyleOutcome(v.s).ret))

wiki_attack_style_to_local_printed(v) ==
    IF v.t = "None" THEN <<>> ELSE StyleOutcome(v.s).printed

-----------------------------------------------------------------------------
(* max_hit_by_attack_style *)

\* [x.strip() for x in s.lower().replace("[", "").replace("]", "").split(",")]
CommaList(s) == StripEach(Split(SubBrackets(Lower(s)), <<",">>))

IgnoredFinal ==
    {<<"p", "i", "c", "k", "p", "o", "c", "k", "e", "t", " ", "f", "a", "i", "l", "u", "r", "e">>,
     <<"o", "n", " ", "w", "i", "s", "e", " ", "o", "l", "d", " ", "m", "a", "n">>,
     <<"w", "i", "t", "h", " ", "a", "n", "t", "i", "-", "d", "r", "a", "g", "o", "n", " ", "s", "h", "i", "e", "l", "d">>}

StandardFinal ==
    {<<"m", "e", "l", "e", "e">>,
     <<"s", "t", "a", "b">>,
     <<"s", "l", "a", "s", "h">>,
     <<"c", "r", "u", "s", "h">>,
     <<"m", "a", "g", "i", "c">>,
     <<"r", "a", "n", "g", "e", "d">>,
     <<"n", "o", "r", "m", "a", "l">>,
     <<"r", "e", "g", "u", "l", "a", "r", " ", "h", "i", "t">>,
     <<"s", "t", "a", "n", "d", "a", "r", "d">>,
     <<"d", "e", "f", "a", "u", "l", "t">>}

TwoInOneFinal ==
    {<<"m", "e", "l", "e", "e", ";", " ", "m", "a", "g", "i", "c">>,
     <<"r", "a", "n", "g", "e", "d", "/", "m", "a", "g", "i", "c">>,
     <<"m", "a", "g", "i", "c", "/", "r", "a", "n", "g", "e", "d">>,
     <<"r", "a", "n", "g", "e", "d", " ", "a", "n", "d", " ", "m", "a", "g", "i", "c">>}

ProtectionFinal ==
    {<<"d", "r", "a", "g", "o", "n", "f", "i", "r", "e">>,
     <<"i", "c", "y", " ", "b", "r", "e", "a", "t", "h">>}

AreaOfEffectFinal ==
    {<<"s", "t", "o", "m", "p">>,
     <<"s", "p", "e", "c", "i", "a", "l", " ", "a", "t", "t", "a", "c", "k">>,
     <<"w", "i", "t", "h", " ", "e", "x", "p", "l", "o", "s", "i", "o", "n">>,
     <<"s", "p", "e", "c", "i", "a", "l">>,
     <<"s", "p", "e", "c", "i", "a", "l", " ", "d", "i", "r", "e", "c", "t", " ", "h", "i", "t">>,
     <<"s", "p", "e", "c", "i", "a", "l", " ", "i", "n", "d", "i", "r", "e", "c", "t", " ", "h", "i", "t">>,
     <<"r", "a", "n", "g", "e", " ", "s", "p", "e", "c", "i", "a", "l">>,
     <<"d", "r", "a", "g", "o", "n", "f", "i", "r", "e", " ", "b", "o", "m", "b", "/", "s", "p", "e", "c", "i", "a", "l">>,
     <<"d", "r", "a", "g", "o", "n", "f", "i", "r", "e", ";", " ", "t", "s", "u", "n", "a", "m", "i">>,
     <<"d", "r", "a", "g", "o", "n", "f", "i", "r", "e", ";", " ", "f", "i", "r", "e", " ", "t", "r", "a", "p", "s", ";", " ", "t", "s", "u", "n", "a", "m", "i">>,
     <<"f", "l", "i", "e", "s">>,
     <<"d", "a", "s", "h">>,
     <<"b", "o", "u", "n", "c", "e">>,
     <<"b", "o", "u", "n", "c", "e", " ", "a", "f", "t", "e", "r", " ", "s", "t", "a", "n", "d", "i", "n", "g", " ", "u", "n", "d", "e", "r", "n", "e", "a", "t", "h">>}

SpecialCaseFinal ==
    {<<"v", "a", "r", "i", "e", "s">>,
     <<"h", "i", "t", "p", "o", "i", "n", "t", "s">>,
     <<"p", "r", "o", "t", "e", "c", "t", " ", "f", "r", "o", "m", " ", "m", "e", "l", "e", "e">>,
     <<"a", "p", "p", "r", "o", "x">>,
     <<"r", "a", "n", "g", "e", "d", " ", "a", "p", "p", "r", "o", "x", ".">>,
     <<"m", "e", "l", "e", "e", "?">>,
     <<"e", "m", "p", "o", "w", "e", "r", "e", "d">>}

\* The legitimacy tests on the tokens of one entry (a list that is not empty).
Legit(maxHitTokens) ==
    LET finalToken == maxHitTokens[Len(maxHitTokens)]
    IN \/ IsDigitStr(finalToken)
       \/ maxHitTokens[1] = <<"0">>
       \/ finalToken \in IgnoredFinal
       \/ finalToken \in StandardFinal
       \/ finalToken \in TwoInOneFinal
       \/ finalToken \in ProtectionFinal
       \/ Contains(finalToken, <<"w", "i", "t", "h", "o", "u", "t">>)
       \/ finalToken \in AreaOfEffectFinal
       \/ (Len(maxHitTokens) > 1 /\ maxHitTokens[2] = <<"+">>)
       \/ finalToken \in SpecialCaseFinal
       \/ Contains(finalToken, <<"m", "a", "y", " ", "b", "e", " ", "h", "i", "g", "h", "e", "r", " ", "t", "h", "a", "n", " ", "4", "7">>)
       \/ /\ Len(maxHitTokens) > 2
          /\ \/ maxHitTokens[2] = <<"x">>
             \/ maxHitTokens[2] = <<"/">>
             \/ /\ Contains(finalToken, <<"{", "{">>)
                /\ Contains(finalToken, <<"}", "}">>)

\* ", ".join(parts)
RECURSIVE JoinComma(_)
JoinComma(parts) ==
    IF parts = <<>> THEN <<>>
    ELSE IF Len(parts) = 1 THEN parts[1]
    ELSE parts[1] \o <<",", " ">> \o JoinComma(Tail(parts))

\* str(maxHitTokens) for tokens without quotes, backslashes and control
\* characters: ['a', 'b'].
ReprList(l) ==
    <<"[">> \o JoinComma([i \in 1..Len(l) |-> <<"'">> \o l[i] \o <<"'">>]) \o <<"]">>

UnrecognizedMaxHit == <<"u", "n", "r", "e", "c", "o", "g", "n", "i", "z", "e", "d", " ", "m", "a", "x", " ", "h", "i", "t", " ", "s", "t", "y", "l", "e", ":", " ">>

\* The loop over maxHitTokensList from entry i with the lines printed so far:
\* maxHitTokens[len(maxHitTokens) - 1] raises IndexError for an entry without
\* tokens; an entry that is not legit is printed.
RECURSIVE ClassifyFrom(_, _, _)
ClassifyFrom(tokensList, i, printed) ==
    IF i > Len(tokensList) THEN [raised |-> FALSE, printed |-> printed]
    ELSE IF tokensList[i] = <<>> THEN [raised |-> TRUE, printed |-> printed]
    ELSE ClassifyFrom(tokensList, i + 1,
                      IF Legit(tokensList[i]) THEN printed
                      ELSE Append(printed,
                                  UnrecognizedMaxHit \o ReprList(tokensList[i])))

\* { "none": 0 }
NoneZero == [t |-> "dict", d |-> [none |-> 0]]

\* { "ranged": 10, "magic": 20, "melee": 30 }
FallbackTriple == [t |-> "dict", d |-> [ranged |-> 10, magic |-> 20, melee |-> 30]]

\* max_hit_by_attack_style(maxHitString, attackStyleString): the outcome and
\* the lines printed.  The loop over attackStyleList only computes locals.
MaxHitByStyle(maxHitString, attackStyleString) ==
    IF Falsy(maxHitString) \/ Falsy(attackStyleString)
    THEN [ret |-> Return(NoneZero), printed |-> <<>>]
    ELSE LET maxHitList == CommaList(maxHitString.s)
             attackStyleList == CommaList(attackStyleString.s)
             tokenized == tokenize_max_hit(maxHitList)
         IN IF ~tokenized.done THEN [ret |-> Hang, printed |-> <<>>]
            ELSE LET c == ClassifyFrom(tokenized.tokens, 1, <<>>)
                 IN IF c.raised
                    THEN [ret |-> Raise("IndexError"), printed |-> c.printed]
                    ELSE [ret |-> Return(FallbackTriple), printed |-> c.printed]

max_hit_by_attack_style(maxHitString, attackStyleString) ==
    MaxHitByStyle(maxHitString, attackStyleString).ret

-----------------------------------------------------------------------------
(* Calls of the tokenizer and the style resolver *)

MaxHitFrags ==
    {<<"5", "0", " ", "(", "m", "a", "g", "i", "c", ")">>,
     <<",", " ", "3", "0", " ", "(", "r", "a", "n", "g", "e", "d", ")">>,
     <<"7">>,
     <<"1", "2">>,
     <<" ">>,
     <<",">>,
     <<"(">>,
     <<")">>,
     <<" ", "(", "a", " ", "b", ")">>,
     <<"{", "{", "r", "}", "}">>,
     <<"x">>,
     <<"+">>}

StyleFrags ==
    {<<"s", "t", "a", "b">>,
     <<"s", "l", "a", "s", "h">>,
     <<"C", "r", "u", "s", "h">>,
     <<"(", "?", ")">>,
     <<" ", "m", "e", "l", "e", "e">>,
     <<"m", "a", "g", "i", "c">>,
     <<"a", "l">>,
     <<"r", "a", "n", "g", "e", "d">>,
     <<" ", "m", "a", "g", "i", "c">>,
     <<"f", "r", "e", "n", "z", "y">>,
     <<"n", "o", "n", "e">>,
     <<"c", "u", "r", "s", "e">>}

MaxHitStrings == Concats(MaxHitFrags, MaxFrags)

\* The second argument of max_hit_by_attack_style.
StyleArguments ==
    {NoneVal, StrVal(<<>>), StrVal(<<"m", "e", "l", "e", "e">>),
     StrVal(<<"[", "[", "M", "a", "g", "i", "c", "]", "]", ",", " ", "t", "y", "p", "e", "l", "e", "s", "s", " ", "r", "a", "n", "g", "e", "d">>)}

\* Lists of entries: those max_hit_by_attack_style makes of a text, and the
\* text itself as the one entry.
EntryLists ==
    {ListVal(CommaList(s)) : s \in MaxHitStrings}
        \cup {ListVal(<<s>>) : s \in MaxHitStrings}

StyleInputs == TextInputs(StyleFrags)

CallTokenizeMaxHit ==
    /\ Len(arg) = 1
    /\ arg[1] \in EntryLists
    /\ Call("tokenize_max_hit", TokenizeOutcome(arg[1].l), <<>>)

CallWikiAttackStyleToLocal ==
    /\ Len(arg) = 1
    /\ arg[1] \in StyleInputs
    /\ Call("wiki_attack_style_to_local", wiki_attack_style_to_local(arg[1]),
            wiki_attack_style_to_local_printed(arg[1]))

CallMaxHitByAttackStyle ==
    /\ Len(arg) = 2
    /\ Call("max_hit_by_attack_style", max_hit_by_attack_style(arg[1], arg[2]),
            MaxHitByStyle(arg[1], arg[2]).printed)

InitMaxHit ==
    /\ fn = ""
    /\ arg \in {<<l>> : l \in EntryLists}
                \cup {<<v>> : v \in StyleInputs}
                \cup {<<m, s>> : m \in {NoneVal} \cup {StrVal(x) : x \in MaxHitStrings},
                                 s \in StyleArguments}
    /\ ret = Return(NoneVal)
    /\ stdout = <<>>
    /\ self = NoObject
    /\ pc = ""
    /\ log = <<>>

NextMaxHit ==
    \/ CallTokenizeMaxHit
    \/ CallWikiAttackStyleToLocal
    \/ CallMaxHitByAttackStyle

\* The max-hit tokenizer and the attack-style resolver: any one of them called
\* on any input.
SpecMaxHit == InitMaxHit /\ [][NextMaxHit]_vars

-----------------------------------------------------------------------------
(* The tokens of max-hit entries *)

\* The entry reads <digits> (<text without parentheses>), with k digits.
DigitParenForm(e, k) ==
    /\ k >= 1
    /\ Len(e) >= k + 3
    /\ IsDigitStr(SubSeq(e, 1, k))
    /\ e[k + 1] = " "
    /\ e[k + 2] = "("
    /\ e[Len(e)] = ")"
    /\ \A i \in (k + 3)..(Len(e) - 1) : e[i] \notin {"(", ")"}

\* C4: tokenizing a comma-separated max-hit string gives one token list per
\* entry, and every entry of the form <digits> (<text without parentheses>)
\* gives exactly the two tokens <digits> and <text>, without the parentheses.
C4_OneTokenListPerEntry ==
    fn = "tokenize_max_hit" =>
        /\ ret.kind = "return"
        /\ Len(ret.val.l) = Len(arg[1].l)
        /\ \A i \in 1..Len(arg[1].l) :
               \A k \in 1..Len(arg[1].l[i]) :
                   DigitParenForm(arg[1].l[i], k) =>
                       ret.val.l[i] = <<SubSeq(arg[1].l[i], 1, k),
                                        SubSeq(arg[1].l[i], k + 3,
                                               Len(arg[1].l[i]) - 1)>>

\* C4 for the calls that return: it fails only where the scan never ends.
C4_WhenTokenizingReturns ==
    fn = "tokenize_max_hit" /\ ret.kind = "return" =>
        /\ Len(ret.val.l) = Len(arg[1].l)
        /\ \A i \in 1..Len(arg[1].l) :
               \A k \in 1..Len(arg[1].l[i]) :
                   DigitParenForm(arg[1].l[i], k) =>
                       ret.val.l[i] = <<SubSeq(arg[1].l[i], 1, k),
                                        SubSeq(arg[1].l[i], k + 3,
                                               Len(arg[1].l[i]) - 1)>>

\* The tokens the fallback rule gives in the scan of a text from the loop
\* state st.
RECURSIVE FallbackTokensFrom(_, _)
FallbackTokensFrom(text, st) ==
    IF st.tokenEnd >= Len(text) THEN {}
    ELSE LET next == TokenizeStep(text, st)
         IN (IF RuleAt(text, st) = "fallback"
             THEN {next.maxHitTokens[Len(next.maxHitTokens)]} ELSE {})
            \cup (IF next.tokenEnd = st.tokenEnd THEN {}
                  ELSE FallbackTokensFrom(text, next))
FallbackTokens(text) ==
    FallbackTokensFrom(text, [tokenStart |-> 0, tokenEnd |-> 0, maxHitTokens |-> <<>>])

\* C25: in a call of tokenize_max_hit that returns, every token the fallback
\* rule gives is not empty, holds no space, and is all digits or without a
\* digit.
C25_FallbackTokensAreUniformRuns ==
    fn = "tokenize_max_hit" /\ ret.kind = "return" =>
        \A i \in 1..Len(arg[1].l) : \A t \in FallbackTokens(arg[1].l[i]) :
            /\ t # <<>>
            /\ \A k \in DOMAIN t : t[k] # " "
            /\ \/ \A k \in DOMAIN t : t[k] \in Digits
               \/ \A k \in DOMAIN t : t[k] \notin Digits

\* C26: every call of tokenize_max_hit returns.
C26_TokenizingTerminates ==
    fn = "tokenize_max_hit" => ret.kind # "hang"

\* Tokenizing the one-entry list [t] gives [[t]].
TokenizesToItself(t) == TokenizeOutcome(<<t>>) = Return(ListVal(<<<<t>>>>))

\* The tokens of the first entry of a call of tokenize_max_hit that returned.
FirstEntryTokens == {ret.val.l[1][i] : i \in 1..Len(ret.val.l[1])}

\* C5 (as stated): for every entry s and every token t of
\* tokenize_max_hit([s])[0], tokenize_max_hit([t]) is [[t]].
C5_EveryTokenTokenizesToItself ==
    fn = "tokenize_max_hit" /\ Len(arg[1].l) = 1 /\ ret.kind = "return" =>
        \A t \in FirstEntryTokens : TokenizesToItself(t)

\* The token is a whole brace reference: it opens with "{{", is longer than
\* "{{}}", and its first "}}" ends it.
WholeBrace(t) ==
    /\ HasAt(t, <<"{", "{">>, 0)
    /\ Len(t) > 4
    /\ Find(t, <<"}", "}">>) = Len(t) - 2

\* The token is not empty, holds no space, holds digits only or no digit, and
\* does not open a brace reference that ends before it does.
UniformRun(t) ==
    /\ t # <<>>
    /\ \A i \in 1..Len(t) : t[i] # " "
    /\ \/ \A i \in 1..Len(t) : t[i] \in Digits
       \/ \A i \in 1..Len(t) : t[i] \notin Digits
    /\ ~(/\ HasAt(t, <<"{", "{">>, 0)
         /\ Len(t) > 4
         /\ Contains(t, <<"}", "}">>))

\* C5 (amended): for every entry s and every token t of
\* tokenize_max_hit([s])[0] that is a whole brace reference, or that is not
\* empty, holds no space, holds digits only or no digit at all and opens no
\* shorter brace reference, tokenize_max_hit([t]) is [[t]].  (A parenthetical
\* token is stored without its parentheses and is read again as plain text.)
C5_UniformTokensTokenizeToThemselves ==
    fn = "tokenize_max_hit" /\ Len(arg[1].l) = 1 /\ ret.kind = "return" =>
        \A t \in FirstEntryTokens :
            WholeBrace(t) \/ UniformRun(t) => TokenizesToItself(t)

\* An entry has given a number, which tokenizes to itself, and a token that
\* does not (a parenthetical with a space in it, an empty token).
C5_Witness ==
    /\ fn = "tokenize_max_hit"
    /\ Len(arg[1].l) = 1
    /\ ret.kind = "return"
    /\ \E t \in FirstEntryTokens : IsDigitStr(t) /\ TokenizesToItself(t)
    /\ \E t \in FirstEntryTokens : ~TokenizesToItself(t)

-----------------------------------------------------------------------------
(* max_hit_by_attack_style and wiki_attack_style_to_local *)

\* C6: max_hit_by_attack_style raises nothing: whatever the max-hit text and
\* the attack-style text (whitespace only, empty entries such as "10," or
\* "10,,20", unrecognized patterns), it returns a mapping.
C6_MaxHitByStyleReturnsAMapping ==
    fn = "max_hit_by_attack_style" =>
        /\ ret.kind = "return"
        /\ ret.val.t = "dict"

\* C7: max_hit_by_attack_style returns {"none": 0} when the max-hit text or
\* the attack-style text is absent or empty, and the fallback triple (ranged,
\* magic, melee) for every other input, whatever the legitimacy of the entries.
C7_NoneOrFallbackTriple ==
    fn = "max_hit_by_attack_style" =>
        ret = Return(IF Falsy(arg[1]) \/ Falsy(arg[2]) THEN NoneZero
                     ELSE FallbackTriple)

\* The phrases wiki_attack_style_to_local knows.
KnownPhrases == UNION {StyleTable[i].wiki : i \in 1..Len(StyleTable)}

\* C8: wiki_attack_style_to_local is total on strings: it returns a style of
\* the canonical vocabulary or the empty string and raises nothing; a phrase
\* it does not know gives the empty string and one printed report.
C8_StyleResolverIsTotal ==
    fn = "wiki_attack_style_to_local" /\ arg[1].t = "str" =>
        /\ ret.kind = "return"
        /\ ret.val.t = "str"
        /\ ret.val.s \in CanonicalStyles \cup {<<>>}
        /\ arg[1].s \notin KnownPhrases =>
               /\ ret.val.s = <<>>
               /\ stdout = <<UnrecognizedStyle \o arg[1].s>>

\* "frenzy" has been resolved to the empty string, with a report.
C8_Witness ==
    /\ fn = "wiki_attack_style_to_local"
    /\ arg[1] = StrVal(<<"f", "r", "e", "n", "z", "y">>)
    /\ ret = Return(StrVal(<<>>))
    /\ stdout # <<>>

-----------------------------------------------------------------------------
(* BuildMonster: the versioned lookup of a property in the infobox template *)

\* A template is a function from the keys it holds to their values (texts).

\* extract_infobox_value(template, key): the value of the key, stripped, or
\* None when template.get(key) raises ValueError (the key is not there).
extract_infobox_value(template, key) ==
    IF key \in DOMAIN template THEN StrVal(Strip(template[key])) ELSE NoneVal

\* A lookup that tries the bare key first.
ResolveField_BareFirst(template, infobox_version_number, property) ==
    LET bare == extract_infobox_value(template, property)
    IN IF bare.t = "None" /\ infobox_version_number.t # "None"
       THEN extract_infobox_value(template, property \o infobox_version_number.s)
       ELSE bare

\* The lookup populate_monster_properties_from_wiki_data makes for each
\* property: the key with the version number when there is one, then the bare
\* key when that gave None.
ResolveField(template, infobox_version_number, property) ==
    LET versioned ==
            IF infobox_version_number.t # "None"
            THEN extract_infobox_value(template,
                                       property \o infobox_version_number.s)
            ELSE NoneVal
    IN IF versioned.t = "None" THEN extract_infobox_value(template, property)
       ELSE versioned

Hitpoints == <<"h", "i", "t", "p", "o", "i", "n", "t", "s">>
Members == <<"m", "e", "m", "b", "e", "r", "s">>

\* The keys the templates of the model may hold.
TemplateKeys == {Hitpoints, Hitpoints \o <<"1">>, Hitpoints \o <<"2">>}

\* The values a key may have: "50", " 20" with a line break, and the empty text.
TemplateValues == {<<"5", "0">>, <<" ", "2", "0", "\n">>, <<>>}

\* Every template over those keys and values.
Templates ==
    UNION {[keys -> TemplateValues] : keys \in SUBSET TemplateKeys}

\* The version numbers preprocessing may leave: None (never set), "" and the
\* numbers of the declared versions.
VersionNumbers == {NoneVal, StrVal(<<>>), StrVal(<<"1">>), StrVal(<<"2">>)}

CallResolveField ==
    /\ Len(arg) = 3
    /\ Call("resolve_field", Return(ResolveField(arg[1], arg[2], arg[3])), <<>>)

InitResolver ==
    /\ fn = ""
    /\ arg \in {<<t, v, k>> : t \in Templates, v \in VersionNumbers,
                              k \in {Hitpoints, Members}}
    /\ ret = Return(NoneVal)
    /\ stdout = <<>>
    /\ self = NoObject
    /\ pc = ""
    /\ log = <<>>

NextResolver == CallResolveField

\* The versioned field lookup on any template, version number and property.
SpecResolver == InitResolver /\ [][NextResolver]_vars

\* C2: the value selected for a property is the value of the key with the
\* version suffix when the template holds that key, else the value of the
\* bare key, else absent; with an empty version the bare key is read directly.
\* (A value is read as extract_infobox_value gives it: trimmed.)
C2_VersionedKeyThenBareKey ==
    fn = "resolve_field" =>
        LET template == arg[1]
            suffix == IF arg[2].t = "None" THEN <<>> ELSE arg[2].s
            property == arg[3]
        IN ret = Return(IF property \o suffix \in DOMAIN template
                        THEN StrVal(Strip(template[property \o suffix]))
                        ELSE IF property \in DOMAIN template
                        THEN StrVal(Strip(template[property]))
                        ELSE NoneVal)

\* With hitpoints1 = 50 and hitpoints = 20 in the template, version "1" has
\* selected 50.
C2_Witness ==
    /\ fn = "resolve_field"
    /\ arg[2] = StrVal(<<"1">>)
    /\ arg[3] = Hitpoints
    /\ {Hitpoints, Hitpoints \o <<"1">>} \subseteq DOMAIN arg[1]
    /\ arg[1][Hitpoints] = <<" ", "2", "0", "\n">>
    /\ arg[1][Hitpoints \o <<"1">>] = <<"5", "0">>
    /\ ret = Return(StrVal(<<"5", "0">>))

-----------------------------------------------------------------------------
(* BuildMonster: construction and preprocessing *)

\* The monsters of the cache dump are numbered 1..MaxMonsterId.
MonsterIds == 1..MaxMonsterId

\* str() of a natural number: its decimal digits.
RECURSIVE StrOfNat(_)
StrOfNat(n) ==
    LET digit == <<"0", "1", "2", "3", "4", "5", "6", "7", "8", "9">>[(n % 10) + 1]
    IN IF n < 10 THEN <<digit>> ELSE StrOfNat(n \div 10) \o <<digit>>

\* A dict without entries, and dict.get(key, None).
EmptyDict == [k \in {} |-> NoneVal]
Get(dict, key) == IF key \in DOMAIN dict THEN dict[key] ELSE NoneVal

\* An attribute the object does not have yet.
Unset == [t |-> "unset"]

\* all_monster_cache_data: the cache data of every monster, by str(id).  The
\* monsters of the model share one name, as the versions of one wiki page do.
AllMonsterCacheData ==
    [k \in {StrOfNat(id) : id \in MonsterIds} |->
        [id |-> CHOOSE id \in MonsterIds : StrOfNat(id) = k,
         name |-> <<"G", "o", "b", "l", "i", "n">>, combatLevel |-> 2, tileSpacesOccupied |-> 1]]

\* The version-index mappings extract_infobox_ids may give: monster ids to
\* version numbers, for any part of the monsters.
VersionedIds ==
    UNION {[ids -> {<<>>, <<"1">>, <<"2">>}] : ids \in SUBSET MonsterIds}

\* The templates of the pages: none of the keys, hitpoints alone, and
\* hitpoints with hitpoints1.
PageTemplates ==
    {EmptyDict,
     [k \in {Hitpoints} |-> <<"5", "0">>],
     [k \in {Hitpoints, Hitpoints \o <<"1">>} |->
         IF k = Hitpoints THEN <<"2", "0">> ELSE <<"5", "0">>]}

\* The name of the wiki page of the monsters.
PageName == <<"C", "a", "v", "e", " ", "g", "o", "b", "l", "i", "n">>

\* A wikitext entry: the name of the page and its raw text, with what
\* WikitextTemplateParser finds in it: whether it holds an "infobox monster",
\* whether that is versioned, its version-index mapping and its template,
\* and with the "dropsline" templates extract_wikitext_template finds in it.
\* An entry without infobox has nothing else.
PageWithoutInfobox ==
    [name |-> PageName, text |-> <<>>,
     has_infobox |-> FALSE, is_versioned |-> FALSE, versioned_ids |-> EmptyDict,
     template |-> EmptyDict, drops_templates |-> <<>>]
Pages ==
    {[name |-> PageName, text |-> <<>>,
      has_infobox |-> TRUE, is_versioned |-> v, versioned_ids |-> ids,
      template |-> t, drops_templates |-> <<>>] :
        v \in BOOLEAN, ids \in VersionedIds, t \in PageTemplates}
        \cup {PageWithoutInfobox}

\* Where the wikitext of the monster is: under its id in
\* all_wikitext_processed, there and under its name in all_wikitext_raw,
\* under its name only, or nowhere.
WikitextPlaces == {"id", "both", "name", "nowhere"}

\* BuildMonster.__init__: the object after construction.
BuildMonster(monster_id, all_wikitext_processed, all_wikitext_raw, all_db_monster, all_db_items) ==
    [monster_id |-> monster_id,
     all_monster_cache_data |-> AllMonsterCacheData,
     all_wikitext_processed |-> all_wikitext_processed,
     all_wikitext_raw |-> all_wikitext_raw,
     all_db_monster |-> all_db_monster,
     all_db_items |-> all_db_items,
     monster_dict |-> EmptyDict,
     drops |-> <<>>,
     wiki_page_name |-> NoneVal,
     infobox_version_number |-> NoneVal,
     status |-> NoneVal,
     monster_id_int |-> Unset,
     monster_id_str |-> Unset,
     monster_cache_data |-> Unset,
     monster_name |-> Unset,
     monster_wikitext |-> Unset,
     wikitext_found_using |-> Unset,
     has_infobox |-> Unset,
     is_versioned |-> Unset,
     versioned_ids |-> Unset,
     template |-> Unset,
     monster_definition |-> Unset]

Logged(level, msg) == [level |-> level, msg |-> msg]

\* An extract_infobox that finds an infobox in every wikitext.
extract_infobox_Always(monster_wikitext) == TRUE

\* infobox_parser.extract_infobox("infobox monster"): whether the wikitext
\* holds the infobox.
extract_infobox(monster_wikitext) == monster_wikitext.has_infobox

\* The version number preprocessing leaves: versioned_ids[monster_id_int] when
\* the mapping is not empty, the default on KeyError, and what the
\* constructor set when the mapping is empty.
VersionNumber(versioned_ids, is_versioned, monster_id_int, before) ==
    IF DOMAIN versioned_ids # {}
    THEN IF monster_id_int \in DOMAIN versioned_ids
         THEN StrVal(versioned_ids[monster_id_int])
         ELSE IF is_versioned THEN StrVal(<<"1">>) ELSE StrVal(<<>>)
    ELSE before

\* preprocessing(): find the wikitext by id, then by name; extract the
\* infobox; set the version number and the template.  Returns False, after a
\* critical log, without wikitext or without infobox.  The object, the log,
\* the value returned and where the monster is then.
preprocessing(b, logged) ==
    LET monster_id_str == StrOfNat(b.monster_id)
        monster_cache_data == b.all_monster_cache_data[monster_id_str]
        monster_name == monster_cache_data.name
        by_id == Get(b.all_wikitext_processed, monster_id_str)
        by_name == Get(b.all_wikitext_raw, monster_name)
        monster_wikitext ==
            IF by_id # NoneVal THEN by_id ELSE by_name
        wikitext_found_using ==
            IF by_id # NoneVal THEN StrVal(<<"i", "d">>)
            ELSE IF by_name # NoneVal THEN StrVal(<<"n", "a", "m", "e">>)
            ELSE NoneVal
        looked == [b EXCEPT
                      !.monster_id_int = b.monster_id,
                      !.monster_id_str = monster_id_str,
                      !.monster_cache_data = monster_cache_data,
                      !.monster_name = monster_name,
                      !.monster_wikitext = monster_wikitext,
                      !.wikitext_found_using = wikitext_found_using,
                      !.has_infobox = FALSE]
        debugged == logged \o <<Logged("debug", "======================="),
                                Logged("debug", "preprocessing: using the following cache data:"),
                                Logged("debug", "monster_cache_data"),
                                Logged("debug", "preprocessing: self.monster_wikitext found using:")>>
    IN IF monster_wikitext = NoneVal
       THEN [self |-> looked,
             log |-> Append(debugged, Logged("critical",
                         "CRITICAL: Could not find monster_wikitext by id or name...")),
             ret |-> Return(BoolVal(FALSE)),
             pc |-> "skipped"]
       ELSE IF ~extract_infobox(monster_wikitext)
       THEN [self |-> looked,
             log |-> Append(debugged, Logged("critical",
                         "CRITICAL: Could not find template...")),
             ret |-> Return(BoolVal(FALSE)),
             pc |-> "skipped"]
       ELSE [self |-> [looked EXCEPT
                          !.has_infobox = TRUE,
                          !.is_versioned = monster_wikitext.is_versioned,
                          !.versioned_ids = monster_wikitext.versioned_ids,
                          !.infobox_version_number =
                              VersionNumber(monster_wikitext.versioned_ids,
                                            monster_wikitext.is_versioned,
                                            b.monster_id,
                                            b.infobox_version_number),
                          !.template = monster_wikitext.template],
             log |-> debugged \o
                         <<Logged("debug", "preprocessing: Is the infobox versioned:"),
                           Logged("debug", "preprocessing: Versioned IDs:"),
                           Logged("debug", "preprocessing: infobox_version_number:")>>,
             ret |-> Return(BoolVal(TRUE)),
             pc |-> "preprocessed"]

Preprocessing ==
    /\ pc = "constructed"
    /\ fn' = "preprocessing"
    /\ arg' = <<>>
    /\ stdout' = <<>>
    /\ LET done == preprocessing(self, log)
       IN /\ self' = done.self
          /\ log' = done.log
          /\ ret' = done.ret
          /\ pc' = done.pc

-----------------------------------------------------------------------------
(* release_date, and dateutil's parse on the texts "<day> <month> <year>" *)

\* The English month names dateutil knows, in lower case; it knows their first
\* three letters too.
MonthNames ==
    <<<<"j", "a", "n", "u", "a", "r", "y">>,
      <<"f", "e", "b", "r", "u", "a", "r", "y">>,
      <<"m", "a", "r", "c", "h">>,
      <<"a", "p", "r", "i", "l">>,
      <<"m", "a", "y">>,
      <<"j", "u", "n", "e">>,
      <<"j", "u", "l", "y">>,
      <<"a", "u", "g", "u", "s", "t">>,
      <<"s", "e", "p", "t", "e", "m", "b", "e", "r">>,
      <<"o", "c", "t", "o", "b", "e", "r">>,
      <<"n", "o", "v", "e", "m", "b", "e", "r">>,
      <<"d", "e", "c", "e", "m", "b", "e", "r">>>>

\* The number of the month a word names (0 when it names none).
MonthOf(word) ==
    LET w == Lower(word)
        hits == {i \in 1..12 : w = MonthNames[i] \/ w = SubSeq(MonthNames[i], 1, 3)}
    IN IF hits = {} THEN 0 ELSE CHOOSE i \in hits : TRUE

IsLeap(year) == year % 4 = 0 /\ (year % 100 # 0 \/ year % 400 = 0)

DaysIn(month, year) ==
    IF month = 2 THEN (IF IsLeap(year) THEN 29 ELSE 28)
    ELSE IF month \in {4, 6, 9, 11} THEN 30 ELSE 31

\* The words of a text: what single spaces separate.
Words(s) == SelectSeq(Split(s, <<" ">>), LAMBDA w : w # <<>>)

\* The digits without their leading zeros.
RECURSIVE Significant(_)
Significant(digits) ==
    IF digits # <<>> /\ Head(digits) = "0" THEN Significant(Tail(digits))
    ELSE digits

\* a < b for two strings of digits of one length.
RECURSIVE DigitsLess(_, _)
DigitsLess(a, b) ==
    /\ a # <<>>
    /\ \/ DigitValue[Head(a)] < DigitValue[Head(b)]
       \/ Head(a) = Head(b) /\ DigitsLess(Tail(a), Tail(b))

\* The number is more than a C int holds (2147483647): datetime.replace raises
\* OverflowError for it.
ExceedsCInt(digits) ==
    LET d == Significant(digits)
    IN \/ Len(d) > 10
       \/ Len(d) = 10 /\ DigitsLess(<<"2", "1", "4", "7", "4", "8", "3", "6", "4", "7">>, d)

\* The number is more than 9999, the last year of datetime.
ExceedsMaxYear(digits) == Len(Significant(digits)) > 4

\* parserinfo.convertyear: a year under 100 is put in the century around the
\* year of the clock.
convertyear(year) ==
    IF year < 100
    THEN LET y == year + (ClockYear \div 100) * 100
         IN IF y >= ClockYear + 50 THEN y - 100
            ELSE IF y < ClockYear - 50 THEN y + 100
            ELSE y
    ELSE year

\* str.zfill: the decimal digits of n, at least width of them.
RECURSIVE ZeroFill(_, _)
ZeroFill(digits, width) ==
    IF Len(digits) >= width THEN digits ELSE ZeroFill(<<"0">> \o digits, width)

\* date.isoformat(): YYYY-MM-DD
isoformat(year, month, day) ==
    ZeroFill(StrOfNat(year), 4) \o <<"-">> \o ZeroFill(StrOfNat(month), 2)
        \o <<"-">> \o ZeroFill(StrOfNat(day), 2)

\* date_parse(value).date(), for a text of three words <number of one or two
\* digits> <word> <number>: a number over 31 in front is the year, else the
\* last number is; a year under 100 is converted; a date that does not exist
\* is a ValueError, a year over the C int an OverflowError.  Any other text of
\* the model (no word, one word without digits) is a ValueError.
date_parse(value) ==
    LET words == Words(value)
    IN IF /\ Len(words) = 3
          /\ IsDigitStr(words[1]) /\ Len(words[1]) <= 2
          /\ MonthOf(words[2]) > 0
          /\ IsDigitStr(words[3])
       THEN LET first == DigitsToNat(words[1])
                month == MonthOf(words[2])
            IN IF first > 31
               THEN \* <year> <month> <day>
                    IF ExceedsCInt(words[3]) THEN Raise("OverflowError")
                    ELSE IF ExceedsMaxYear(words[3]) THEN Raise("ValueError")
                    ELSE IF DigitsToNat(words[3]) \in
                                1..DaysIn(month, convertyear(first))
                    THEN Return([year |-> convertyear(first), month |-> month,
                                 day |-> DigitsToNat(words[3])])
                    ELSE Raise("ValueError")
               ELSE \* <day> <month> <year>
                    IF ExceedsCInt(words[3]) THEN Raise("OverflowError")
                    ELSE IF ExceedsMaxYear(words[3]) THEN Raise("ValueError")
                    ELSE LET year == convertyear(DigitsToNat(words[3]))
                         IN IF year >= 1 /\ first \in 1..DaysIn(month, year)
                            THEN Return([year |-> year, month |-> month,
                                         day |-> first])
                            ELSE Raise("ValueError")
       ELSE Raise("ValueError")

\* release_date(value): None for no value; the brackets removed, the date
\* parsed and written as ISO 8601; None on ValueError (and AttributeError).
release_date(v) ==
    IF Falsy(v) THEN Return(NoneVal)
    ELSE LET parsed == date_parse(Replace(Replace(v.s, <<"[">>, <<>>), <<"]">>, <<>>))
         IN IF parsed.kind = "return"
            THEN Return(StrVal(isoformat(parsed.val.year, parsed.val.month,
                                         parsed.val.day)))
            ELSE IF parsed.exc \in {"ValueError", "AttributeError"}
            THEN Return(NoneVal)
            ELSE parsed

\* The days, months and years the dates of the model are written with.
DayTexts == {<<"7">>, <<"0", "7">>, <<"2", "9">>, <<"3", "1">>, <<"3", "2">>}
MonthTexts == {<<"F", "e", "b", "r", "u", "a", "r", "y">>, <<"o", "c", "t", "o", "b", "e", "r">>, <<"S", "e", "p">>, <<"F", "e", "b", "t", "o", "b", "e", "r">>}
YearTexts == {<<"2", "0", "0", "5">>, <<"2", "0", "0", "4">>, <<"0", "0", "5", "0">>, <<"1", "2", "3", "4", "5">>, <<"2", "1", "4", "7", "4", "8", "3", "6", "4", "7">>, <<"2", "1", "4", "7", "4", "8", "3", "6", "4", "8">>}

\* "<day> <month> <year>"
DateTexts ==
    {d \o <<" ">> \o m \o <<" ">> \o y :
        d \in DayTexts, m \in MonthTexts, y \in YearTexts}

\* [[<day> <month>]] [[<year>]], as the wiki links a date.
WikiDateTexts ==
    {<<"[", "[">> \o d \o <<" ">> \o m \o <<"]", "]", " ", "[", "[">> \o y
        \o <<"]", "]">> : d \in DayTexts, m \in MonthTexts, y \in YearTexts}

\* The text with one bracket put in at the offset i.
InsertAt(s, i, c) == SubSeq(s, 1, i) \o <<c>> \o SubSeq(s, i + 1, Len(s))

\* The texts with at most n brackets put in anywhere.
RECURSIVE Bracketed(_, _)
Bracketed(S, n) ==
    IF n = 0 THEN S
    ELSE LET prev == Bracketed(S, n - 1)
         IN prev \cup UNION {{InsertAt(s, i, c) : i \in 0..Len(s), c \in {"[", "]"}} :
                                s \in prev}

\* The dates brackets are put into.
BracketedDateTexts ==
    {d \o <<" ">> \o m \o <<" ">> \o y :
        d \in {<<"7">>, <<"3", "1">>},
        m \in {<<"F", "e", "b", "r", "u", "a", "r", "y">>, <<"o", "c", "t", "o", "b", "e", "r">>},
        y \in {<<"2", "0", "0", "5">>, <<"0", "0", "5", "0">>}}

\* None, texts that are no date, and the dates with and without brackets.
DateInputs ==
    {NoneVal, StrVal(<<>>), StrVal(<<"x">>), StrVal(<<"[">>), StrVal(<<"]", "[">>)}
        \cup {StrVal(s) : s \in Bracketed(BracketedDateTexts, MaxBrackets)
                                \cup DateTexts \cup WikiDateTexts}

CallReleaseDate ==
    /\ arg[1] \in DateInputs
    /\ Call("release_date", release_date(arg[1]), <<>>)

InitReleaseDate ==
    /\ fn = ""
    /\ arg \in {<<v>> : v \in DateInputs}
    /\ ret = Return(NoneVal)
    /\ stdout = <<>>
    /\ self = NoObject
    /\ pc = ""
    /\ log = <<>>

NextReleaseDate == CallReleaseDate

\* release_date called on any of the date inputs.
SpecReleaseDate == InitReleaseDate /\ [][NextReleaseDate]_vars

\* The text without its brackets.
Unbracketed(s) == Replace(Replace(s, <<"[">>, <<>>), <<"]">>, <<>>)

\* The text reads dd Month YYYY: a day of one or two digits, the name of a
\* month, a year of four digits, and the day exists in that month.
WellFormedDate(s) ==
    LET w == Words(s)
    IN /\ Len(w) = 3
       /\ IsDigitStr(w[1]) /\ Len(w[1]) <= 2
       /\ \E i \in 1..12 : Lower(w[2]) = MonthNames[i]
       /\ IsDigitStr(w[3]) /\ Len(w[3]) = 4
       /\ DigitsToNat(w[3]) >= 1
       /\ DigitsToNat(w[1]) \in
              1..DaysIn(CHOOSE i \in 1..12 : Lower(w[2]) = MonthNames[i],
                        DigitsToNat(w[3]))

\* YYYY-MM-DD of a well-formed date, from its own digits.
IsoOf(s) ==
    LET w == Words(s)
    IN w[3] \o <<"-">>
        \o ZeroFill(StrOfNat(CHOOSE i \in 1..12 : Lower(w[2]) = MonthNames[i]), 2)
        \o <<"-">> \o ZeroFill(w[1], 2)

C11_DatesFromYear100 ==
    fn = "release_date" =>
        /\ Falsy(arg[1]) => ret = Return(NoneVal)
        /\ /\ arg[1].t = "str"
           /\ WellFormedDate(Unbracketed(arg[1].s))
           /\ DigitsToNat(Words(Unbracketed(arg[1].s))[3]) >= 100
           => ret = Return(StrVal(IsoOf(Unbracketed(arg[1].s))))

-----------------------------------------------------------------------------
(* BuildMonster: populate_monster *)

\* dict[key] = value
Put(dict, key, value) == (key :> value) @@ dict

\* Python truthiness of the values a record holds.
Truthy(v) ==
    \/ v.t = "bool" /\ v.b
    \/ v.t = "int" /\ v.n # 0
    \/ v.t = "str" /\ v.s # <<>>
    \/ v.t = "list" /\ v.l # <<>>

\* The cleaners populate_monster_properties_from_wiki_data calls.  A value
\* they are given is a str (a value found in the template).

\* clean_boolean: true for "true" and "yes" in any case, after the generic
\* cleaning; false for any other text.
clean_boolean(value) ==
    BoolVal(Lower(clean_wikitext(value)) \in TrueWords)

\* clean_integer: the number the cleaned text parses to; absent when it does
\* not parse.
clean_integer(value) ==
    LET p == ParseInt(clean_wikitext(value))
    IN IF p.ok THEN IntVal(p.n) ELSE NoneVal

\* clean_stats_value: the number the cleaned text parses to; zero when it
\* does not parse.
clean_stats_value(value) ==
    LET p == ParseInt(clean_wikitext(value))
    IN IF p.ok THEN IntVal(p.n) ELSE IntVal(0)

\* clean_release_date: the date in ISO 8601 form, brackets stripped; absent
\* for an empty or unparseable text.
clean_release_date(value) ==
    IF Falsy(value) THEN NoneVal
    ELSE LET parsed == date_parse(Replace(Replace(value.s, <<"[">>, <<>>), <<"]">>, <<>>))
         IN IF parsed.kind = "return"
            THEN StrVal(isoformat(parsed.val.year, parsed.val.month, parsed.val.day))
            ELSE NoneVal

\* clean_attack_type: the terms of the attack-type vocabulary the text holds.
clean_attack_type(value) == attack_type(value).val

\* clean_weaknesses: the names of the text, split on commas, trimmed and
\* lower-cased; none for an empty text.
clean_weaknesses(value) ==
    IF Strip(value.s) = <<>> THEN ListVal(<<>>)
    ELSE ListVal(LowerEach(StripEach(Split(Strip(value.s), <<",">>))))

\* clean_monster_examine: the first line, markup stripped.
clean_monster_examine(value) == examine(value).val

Clean(cleaner, value) ==
    CASE cleaner = "clean_boolean" -> clean_boolean(value)
      [] cleaner = "clean_integer" -> clean_integer(value)
      [] cleaner = "clean_stats_value" -> clean_stats_value(value)
      [] cleaner = "clean_release_date" -> clean_release_date(value)
      [] cleaner = "clean_attack_type" -> clean_attack_type(value)
      [] cleaner = "clean_weaknesses" -> clean_weaknesses(value)
      [] cleaner = "clean_monster_examine" -> clean_monster_examine(value)

\* The properties read from the infobox before the slayer masters, in the
\* order of the code: the infobox key, the name in the record, the cleaner
\* and the value set when the key is not there.
InfoboxProperties ==
    <<[key |-> <<"m", "e", "m", "b", "e", "r", "s">>, name |-> "members", cleaner |-> "clean_boolean", default |-> NoneVal],
      [key |-> <<"r", "e", "l", "e", "a", "s", "e">>, name |-> "release_date", cleaner |-> "clean_release_date", default |-> NoneVal],
      [key |-> <<"h", "i", "t", "p", "o", "i", "n", "t", "s">>, name |-> "hitpoints", cleaner |-> "clean_integer", default |-> IntVal(0)],
      [key |-> <<"m", "a", "x", " ", "h", "i", "t">>, name |-> "max_hit", cleaner |-> "clean_integer", default |-> IntVal(0)],
      [key |-> <<"a", "t", "t", "a", "c", "k", " ", "s", "t", "y", "l", "e">>, name |-> "attack_type", cleaner |-> "clean_attack_type", default |-> ListVal(<<>>)],
      [key |-> <<"a", "t", "t", "a", "c", "k", " ", "s", "p", "e", "e", "d">>, name |-> "attack_speed", cleaner |-> "clean_integer", default |-> NoneVal],
      [key |-> <<"a", "g", "g", "r", "e", "s", "s", "i", "v", "e">>, name |-> "aggressive", cleaner |-> "clean_boolean", default |-> BoolVal(FALSE)],
      [key |-> <<"p", "o", "i", "s", "o", "n", "o", "u", "s">>, name |-> "poisonous", cleaner |-> "clean_boolean", default |-> BoolVal(FALSE)],
      [key |-> <<"i", "m", "m", "u", "n", "e", "p", "o", "i", "s", "o", "n">>, name |-> "immune_poison", cleaner |-> "clean_boolean", default |-> BoolVal(FALSE)],
      [key |-> <<"i", "m", "m", "u", "n", "e", "v", "e", "n", "o", "m">>, name |-> "immune_venom", cleaner |-> "clean_boolean", default |-> BoolVal(FALSE)],
      [key |-> <<"w", "e", "a", "k", "n", "e", "s", "s">>, name |-> "weakness", cleaner |-> "clean_weaknesses", default |-> ListVal(<<>>)],
      [key |-> <<"s", "l", "a", "y", "l", "v", "l">>, name |-> "slayer_level", cleaner |-> "clean_integer", default |-> NoneVal],
      [key |-> <<"s", "l", "a", "y", "x", "p">>, name |-> "slayer_xp", cleaner |-> "clean_integer", default |-> NoneVal]>>

ExamineProperty ==
    [key |-> <<"e", "x", "a", "m", "i", "n", "e">>, name |-> "examine", cleaner |-> "clean_monster_examine", default |-> NoneVal]

\* combat_bonuses: database name -> infobox name, in the order of the dict.
combat_bonuses ==
    <<[key |-> <<"a", "t", "t">>, name |-> "attack_level", cleaner |-> "clean_stats_value", default |-> IntVal(0)],
      [key |-> <<"s", "t", "r">>, name |-> "strength_level", cleaner |-> "clean_stats_value", default |-> IntVal(0)],
      [key |-> <<"d", "e", "f">>, name |-> "defence_level", cleaner |-> "clean_stats_value", default |-> IntVal(0)],
      [key |-> <<"m", "a", "g", "e">>, name |-> "magic_level", cleaner |-> "clean_stats_value", default |-> IntVal(0)],
      [key |-> <<"r", "a", "n", "g", "e">>, name |-> "ranged_level", cleaner |-> "clean_stats_value", default |-> IntVal(0)],
      [key |-> <<"a", "s", "t", "a", "b">>, name |-> "attack_stab", cleaner |-> "clean_stats_value", default |-> IntVal(0)],
      [key |-> <<"a", "s", "l", "a", "s", "h">>, name |-> "attack_slash", cleaner |-> "clean_stats_value", default |-> IntVal(0)],
      [key |-> <<"a", "c", "r", "u", "s", "h">>, name |-> "attack_crush", cleaner |-> "clean_stats_value", default |-> IntVal(0)],
      [key |-> <<"a", "m", "a", "g", "i", "c">>, name |-> "attack_magic", cleaner |-> "clean_stats_value", default |-> IntVal(0)],
      [key |-> <<"a", "r", "a", "n", "g", "e">>, name |-> "attack_ranged", cleaner |-> "clean_stats_value", default |-> IntVal(0)],
      [key |-> <<"d", "s", "t", "a", "b">>, name |-> "defence_stab", cleaner |-> "clean_stats_value", default |-> IntVal(0)],
      [key |-> <<"d", "s", "l", "a", "s", "h">>, name |-> "defence_slash", cleaner |-> "clean_stats_value", default |-> IntVal(0)],
      [key |-> <<"d", "c", "r", "u", "s", "h">>, name |-> "defence_crush", cleaner |-> "clean_stats_value", default |-> IntVal(0)],
      [key |-> <<"d", "m", "a", "g", "i", "c">>, name |-> "defence_magic", cleaner |-> "clean_stats_value", default |-> IntVal(0)],
      [key |-> <<"d", "r", "a", "n", "g", "e">>, name |-> "defence_ranged", cleaner |-> "clean_stats_value", default |-> IntVal(0)],
      [key |-> <<"a", "t", "t", "b", "n", "s">>, name |-> "attack_accuracy", cleaner |-> "clean_stats_value", default |-> IntVal(0)],
      [key |-> <<"s", "t", "r", "b", "n", "s">>, name |-> "melee_strength", cleaner |-> "clean_stats_value", default |-> IntVal(0)],
      [key |-> <<"r", "n", "g", "b", "n", "s">>, name |-> "ranged_strength", cleaner |-> "clean_stats_value", default |-> IntVal(0)],
      [key |-> <<"m", "b", "n", "s">>, name |-> "magic_damage", cleaner |-> "clean_stats_value", default |-> IntVal(0)]>>

slayer_masters_names ==
    <<<<"t", "u", "r", "a", "e", "l">>,
      <<"k", "r", "y", "s", "t", "i", "l", "i", "a">>,
      <<"m", "a", "z", "c", "h", "n", "a">>,
      <<"v", "a", "n", "n", "a", "k", "a">>,
      <<"c", "h", "a", "e", "l", "d", "a", "r">>,
      <<"k", "o", "n", "a", "r">>,
      <<"n", "i", "e", "v", "e">>,
      <<"d", "u", "r", "a", "d", "e", "l">>>>

\* self.monster_dict["incomplete"] = True
MarkIncomplete_Not(monster_dict) == monster_dict
MarkIncomplete(monster_dict) == Put(monster_dict, "incomplete", BoolVal(TRUE))

\* One property: the value of the key with the version number, else of the
\* bare key, cleaned; the default and the incomplete flag without a value.
PopulateProperty(b, monster_dict, p) ==
    LET value == ResolveField(b.template, b.infobox_version_number, p.key)
    IN IF value.t # "None"
       THEN Put(monster_dict, p.name, Clean(p.cleaner, value))
       ELSE MarkIncomplete(Put(monster_dict, p.name, p.default))

\* The properties one after the other.  (The test on the domain has the
\* record of one property evaluated before the next property is read.)
RECURSIVE PopulateProperties(_, _, _)
PopulateProperties(b, monster_dict, properties) ==
    IF properties = <<>> THEN monster_dict
    ELSE LET populated == PopulateProperty(b, monster_dict, Head(properties))
         IN IF DOMAIN populated = {} THEN populated
            ELSE PopulateProperties(b, populated, Tail(properties))

\* populate_from_cache_data(): id, name, combat level and size from the cache.
populate_from_cache_data(b) ==
    [b EXCEPT !.monster_dict =
        Put(Put(Put(Put(b.monster_dict,
            "id", IntVal(b.monster_cache_data.id)),
            "name", StrVal(b.monster_cache_data.name)),
            "combat_level", IntVal(b.monster_cache_data.combatLevel)),
            "size", IntVal(b.monster_cache_data.tileSpacesOccupied))]

\* Stage one: the wiki name and the wiki url, from the page name (the cache
\* name unless the wikitext was found by id) and the version name.
WikiNames(b, monster_dict) ==
    LET wiki_page_name ==
            IF b.wikitext_found_using # StrVal(<<"i", "d">>)
            THEN b.monster_name ELSE b.monster_wikitext.name
        wiki_versioned_name ==
            IF b.infobox_version_number.t # "None"
            THEN extract_infobox_value(b.template,
                     <<"v", "e", "r", "s", "i", "o", "n">> \o b.infobox_version_number.s)
            ELSE extract_infobox_value(b.template, <<"v", "e", "r", "s", "i", "o", "n">>)
        wiki_name ==
            IF wiki_versioned_name.t # "None"
            THEN IF HasAt(wiki_versioned_name.s, <<"(">>, 0)
                 THEN wiki_page_name \o <<" ">> \o wiki_versioned_name.s
                 ELSE wiki_page_name \o <<" ", "(">> \o wiki_versioned_name.s \o <<")">>
            ELSE wiki_page_name
        wiki_url ==
            IF wiki_versioned_name.t # "None"
            THEN wiki_page_name \o <<"#">> \o wiki_versioned_name.s
            ELSE wiki_page_name
    IN Put(Put(monster_dict, "wiki_name", StrVal(wiki_name)),
           "wiki_url", StrVal(<<"h", "t", "t", "p", "s", ":", "/", "/", "o", "l", "d", "s", "c", "h", "o", "o", "l", ".", "r", "u", "n", "e", "s", "c", "a", "p", "e", ".", "w", "i", "k", "i", "/", "w", "/">>
                              \o Replace(wiki_url, <<" ">>, <<"_">>)))

\* The slayer masters whose key, with the version number or bare, is in the
\* template.
AssigningMasters(b) ==
    SelectSeq(slayer_masters_names,
              LAMBDA m : ResolveField(b.template, b.infobox_version_number, m).t # "None")

\* slayer_monster from the slayer level; slayer_masters for a slayer monster,
\* and an empty list when the record has none.
SlayerProperties(b, monster_dict) ==
    LET slayer_monster == Truthy(monster_dict["slayer_level"])
        with_monster == Put(monster_dict, "slayer_monster", BoolVal(slayer_monster))
        with_masters ==
            IF slayer_monster
            THEN Put(with_monster, "slayer_masters", ListVal(AssigningMasters(b)))
            ELSE with_monster
    IN IF "slayer_masters" \in DOMAIN with_masters
          /\ Truthy(with_masters["slayer_masters"])
       THEN with_masters
       ELSE Put(with_masters, "slayer_masters", ListVal(<<>>))

\* `if not self.monster_dict.get("incomplete")`: the flag is set to False.
FinishIncomplete(monster_dict) ==
    IF Truthy(IF "incomplete" \in DOMAIN monster_dict
              THEN monster_dict["incomplete"] ELSE NoneVal)
    THEN monster_dict
    ELSE Put(monster_dict, "incomplete", BoolVal(FALSE))

\* populate_monster_properties_from_wiki_data()
populate_monster_properties_from_wiki_data(b) ==
    [b EXCEPT !.monster_dict =
        FinishIncomplete(
            PopulateProperties(b,
                PopulateProperty(b,
                    SlayerProperties(b,
                        PopulateProperties(b, WikiNames(b, b.monster_dict),
                                           InfoboxProperties)),
                    ExamineProperty),
                combat_bonuses))]

\* populate_monster(): the cache data, then the wiki data.
PopulateMonster ==
    /\ pc = "preprocessed"
    /\ fn' = "populate_monster"
    /\ self' = populate_monster_properties_from_wiki_data(populate_from_cache_data(self))
    /\ ret' = Return(NoneVal)
    /\ log' = log \o <<Logged("debug", "populate_from_cache: Loading item cache data data to object..."),
                       Logged("debug", "populate_monster_properties_from_wiki_data: Populating wiki data...")>>
    /\ pc' = "populated"
    /\ UNCHANGED <<arg, stdout>>

-----------------------------------------------------------------------------
(* The infoboxes of the pages *)

\* An infobox with every key populate reads but the version name, each with
\* a value of its type.
FullTemplatePairs ==
    <<<<<<"m", "e", "m", "b", "e", "r", "s">>, <<"Y", "e", "s">>>>,
      <<<<"r", "e", "l", "e", "a", "s", "e">>, <<"[", "[", "7", " ", "F", "e", "b", "r", "u", "a", "r", "y", "]", "]", " ", "[", "[", "2", "0", "0", "5", "]", "]">>>>,
      <<<<"h", "i", "t", "p", "o", "i", "n", "t", "s">>, <<"5", "0">>>>,
      <<<<"m", "a", "x", " ", "h", "i", "t">>, <<"5">>>>,
      <<<<"a", "t", "t", "a", "c", "k", " ", "s", "t", "y", "l", "e">>, <<"[", "[", "C", "r", "u", "s", "h", "]", "]">>>>,
      <<<<"a", "t", "t", "a", "c", "k", " ", "s", "p", "e", "e", "d">>, <<"4">>>>,
      <<<<"a", "g", "g", "r", "e", "s", "s", "i", "v", "e">>, <<"N", "o">>>>,
      <<<<"p", "o", "i", "s", "o", "n", "o", "u", "s">>, <<"N", "o">>>>,
      <<<<"i", "m", "m", "u", "n", "e", "p", "o", "i", "s", "o", "n">>, <<"N", "o">>>>,
      <<<<"i", "m", "m", "u", "n", "e", "v", "e", "n", "o", "m">>, <<"N", "o">>>>,
      <<<<"w", "e", "a", "k", "n", "e", "s", "s">>, <<"F", "i", "r", "e", ",", " ", "W", "a", "t", "e", "r">>>>,
      <<<<"s", "l", "a", "y", "l", "v", "l">>, <<"1", "5">>>>,
      <<<<"s", "l", "a", "y", "x", "p">>, <<"5", "0">>>>,
      <<<<"e", "x", "a", "m", "i", "n", "e">>, <<"A", "n", " ", "u", "g", "l", "y", " ", "g", "r", "e", "e", "n", " ", "c", "r", "e", "a", "t", "u", "r", "e", ".">>>>,
      <<<<"t", "u", "r", "a", "e", "l">>, <<"Y", "e", "s">>>>,
      <<<<"n", "i", "e", "v", "e">>, <<"Y", "e", "s">>>>,
      <<<<"a", "t", "t">>, <<"1">>>>,
      <<<<"s", "t", "r">>, <<"2">>>>,
      <<<<"d", "e", "f">>, <<"3">>>>,
      <<<<"m", "a", "g", "e">>, <<"4">>>>,
      <<<<"r", "a", "n", "g", "e">>, <<"5">>>>,
      <<<<"a", "s", "t", "a", "b">>, <<"6">>>>,
      <<<<"a", "s", "l", "a", "s", "h">>, <<"7">>>>,
      <<<<"a", "c", "r", "u", "s", "h">>, <<"8">>>>,
      <<<<"a", "m", "a", "g", "i", "c">>, <<"9">>>>,
      <<<<"a", "r", "a", "n", "g", "e">>, <<"1", "0">>>>,
      <<<<"d", "s", "t", "a", "b">>, <<"1", "1">>>>,
      <<<<"d", "s", "l", "a", "s", "h">>, <<"1", "2">>>>,
      <<<<"d", "c", "r", "u", "s", "h">>, <<"1", "3">>>>,
      <<<<"d", "m", "a", "g", "i", "c">>, <<"1", "4">>>>,
      <<<<"d", "r", "a", "n", "g", "e">>, <<"1", "5">>>>,
      <<<<"a", "t", "t", "b", "n", "s">>, <<"1", "6">>>>,
      <<<<"s", "t", "r", "b", "n", "s">>, <<"1", "7">>>>,
      <<<<"r", "n", "g", "b", "n", "s">>, <<"1", "8">>>>,
      <<<<"m", "b", "n", "s">>, <<"1", "9">>>>>>

FullTemplate ==
    [k \in {FullTemplatePairs[i][1] : i \in DOMAIN FullTemplatePairs} |->
        FullTemplatePairs[CHOOSE i \in DOMAIN FullTemplatePairs :
                              FullTemplatePairs[i][1] = k][2]]

\* The keys the infoboxes of the model differ in.
EditedKeys ==
    {<<"m", "e", "m", "b", "e", "r", "s">>,
     <<"r", "e", "l", "e", "a", "s", "e">>,
     <<"h", "i", "t", "p", "o", "i", "n", "t", "s">>,
     <<"a", "t", "t", "a", "c", "k", " ", "s", "p", "e", "e", "d">>,
     <<"a", "g", "g", "r", "e", "s", "s", "i", "v", "e">>,
     <<"s", "l", "a", "y", "l", "v", "l">>,
     <<"e", "x", "a", "m", "i", "n", "e">>,
     <<"a", "t", "t">>,
     <<"t", "u", "r", "a", "e", "l">>,
     <<"v", "e", "r", "s", "i", "o", "n">>}

Without(template, key) ==
    [k \in DOMAIN template \ {key} |-> template[k]]

\* The infoboxes one change away from a template: a key removed; a key with
\* a text that is no number, no date and no boolean, or with the empty text;
\* the key of version 1 added; a key renamed to its key of version 1.
Edits(template) ==
    UNION {{Without(template, k),
            Put(template, k, <<"a", "b", "c">>),
            Put(template, k, <<>>),
            Put(template, k \o <<"1">>, <<"3">>),
            IF k \in DOMAIN template
            THEN Put(Without(template, k), k \o <<"1">>, template[k])
            ELSE template} : k \in EditedKeys}

RECURSIVE EditedTemplates(_)
EditedTemplates(n) ==
    IF n = 0 THEN {FullTemplate}
    ELSE LET less == EditedTemplates(n - 1)
         IN less \cup UNION {Edits(t) : t \in less}

\* The page with one of those infoboxes and a version-index mapping; the
\* mappings have monster 1 as version "1" or are empty (no versions).
InfoboxPage(versioned_ids, template) ==
    [name |-> PageName, text |-> <<>>,
     has_infobox |-> TRUE, is_versioned |-> versioned_ids # EmptyDict,
     versioned_ids |-> versioned_ids,
     template |-> template, drops_templates |-> <<>>]
InfoboxVersionedIds == {EmptyDict, [id \in {1} |-> <<"1">>]}

-----------------------------------------------------------------------------
(* BuildMonster: parse_monster_drops *)

\* A "dropsline" template: its keys, in the order of the text, with their
\* values, as a function and as wikitext.
DropsLine(pairs) ==
    [k \in {pairs[i][1] : i \in DOMAIN pairs} |->
        pairs[CHOOSE i \in DOMAIN pairs : pairs[i][1] = k][2]]

\* template_parser.extract_infobox_value(key): the value of the key in the
\* drop line, trimmed; absent when the line has no such key.
TemplateValue(template, key) ==
    IF key \in DOMAIN template THEN StrVal(Strip(template[key])) ELSE NoneVal

\* The item catalog: entries with id, name, wiki_name and members, in order;
\* all_db_items[id] is the entry with the id.
Item(id, name, wiki_name, members_only) ==
    [id |-> id, name |-> name, wiki_name |-> wiki_name, members |-> members_only]
ItemById(all_db_items, id) ==
    all_db_items[CHOOSE i \in DOMAIN all_db_items : all_db_items[i].id = id]

\* clean_drop_quantity: absent for no quantity; else the text after the
\* generic cleaning (which removes the note " (noted)").
clean_drop_quantity(quantity) ==
    IF Falsy(quantity) THEN NoneVal ELSE StrVal(clean_wikitext(quantity))

\* clean_drop_rarity, for a rarity that names no variable: "Always" is 1/1,
\* "<n>/<d>" the fraction, any other text absent.
clean_drop_rarity(rarity, base_value) ==
    IF Falsy(rarity) THEN NoneVal
    ELSE LET text == clean_wikitext(rarity)
             parts == Split(text, <<"/">>)
         IN IF Lower(text) = <<"a", "l", "w", "a", "y", "s">>
            THEN [t |-> "fraction", num |-> 1, den |-> 1]
            ELSE IF Len(parts) = 2 /\ ParseInt(parts[1]).ok /\ ParseInt(parts[2]).ok
            THEN [t |-> "fraction", num |-> ParseInt(parts[1]).n,
                  den |-> ParseInt(parts[2]).n]
            ELSE NoneVal

\* clean_drop_requirements: absent for no text; else the cleaned text.
clean_drop_requirements(drop_requirements) ==
    IF Falsy(drop_requirements) THEN NoneVal
    ELSE StrVal(clean_wikitext(drop_requirements))

RareDropTableName == <<"r", "a", "r", "e", " ", "d", "r", "o", "p", " ", "t", "a", "b", "l", "e">>

\* `name.lower() == "rare drop table"`, and a test that keeps the case.
IsRareDropTable_Exact(name) == name = RareDropTableName
IsRareDropTable(name) == Lower(name) = RareDropTableName

\* The id of the drop: the id of the first item of the catalog whose name or
\* wiki name is the name; None without such an item.
DropId_ByNameOnly(all_db_items, name) ==
    LET hits == {i \in DOMAIN all_db_items : all_db_items[i].name = name}
    IN IF hits = {} THEN NoneVal
       ELSE IntVal(all_db_items[CHOOSE i \in hits : \A j \in hits : i <= j].id)
DropId(all_db_items, name) ==
    LET hits == {i \in DOMAIN all_db_items :
                    all_db_items[i].name = name \/ all_db_items[i].wiki_name = name}
    IN IF hits = {} THEN NoneVal
       ELSE IntVal(all_db_items[CHOOSE i \in hits : \A j \in hits : i <= j].id)

\* The members flag of a drop: the if / elif / elif of the code.
DropMembers(b, id, name_notes) ==
    IF Truthy(b.monster_dict["members"]) THEN TRUE
    ELSE IF Truthy(id) THEN ItemById(b.all_db_items, id.n).members
    ELSE IF Truthy(name_notes) THEN Contains(name_notes.s, <<"{", "{", "m", "}", "}">>)
    ELSE FALSE

\* The drop_dict of one drop line that has a name.  (The rarities of the
\* model name no herbbase or seedbase variable: base_value is None.)
DropDict(b, template) ==
    LET name == TemplateValue(template, <<"N", "a", "m", "e">>)
        id == DropId(b.all_db_items, name.s)
        quantity == TemplateValue(template, <<"Q", "u", "a", "n", "t", "i", "t", "y">>)
        name_notes == TemplateValue(template, <<"N", "a", "m", "e", "n", "o", "t", "e", "s">>)
        rarity == TemplateValue(template, <<"R", "a", "r", "i", "t", "y">>)
        drop_requirements == TemplateValue(template, <<"R", "a", "r", "i", "t", "y", "n", "o", "t", "e", "s">>)
    IN [id |-> id,
        name |-> name,
        members |-> BoolVal(DropMembers(b, id, name_notes)),
        quantity |-> clean_drop_quantity(quantity),
        noted |-> BoolVal(Truthy(quantity) /\ Contains(Lower(quantity.s), <<"n", "o", "t", "e", "d">>)),
        rarity |-> clean_drop_rarity(rarity, NoneVal),
        drop_requirements |-> clean_drop_requirements(drop_requirements)]

\* The loop over the drop lines: the drops appended, and whether a line
\* without name ended it (None.lower() raises AttributeError).
RECURSIVE DropsLoop(_, _, _)
DropsLoop(b, templates, drops) ==
    IF templates = <<>> THEN [drops |-> drops, raised |-> FALSE]
    ELSE LET name == TemplateValue(Head(templates), <<"N", "a", "m", "e">>)
         IN IF name.t = "None" THEN [drops |-> drops, raised |-> TRUE]
            ELSE IF IsRareDropTable(name.s)
            THEN DropsLoop(b, Tail(templates), drops)
            ELSE DropsLoop(b, Tail(templates),
                           Append(drops, DropDict(b, Head(templates))))

\* Whether the raw text invokes the rare drop table or the gem drop table,
\* and a test for the rare drop table alone.
HasRareDropTable_RareOnly(text) ==
    Contains(Lower(text), <<"{", "{", "r", "a", "r", "e", "d", "r", "o", "p", "t", "a", "b", "l", "e">>)
HasRareDropTable(text) ==
    \/ Contains(Lower(text), <<"{", "{", "r", "a", "r", "e", "d", "r", "o", "p", "t", "a", "b", "l", "e">>)
    \/ Contains(Lower(text), <<"{", "{", "g", "e", "m", "d", "r", "o", "p", "t", "a", "b", "l", "e">>)

\* parse_monster_drops(): the drops of the drop lines, then the drops and the
\* rare_drop_table flag in the record.
ParseMonsterDrops ==
    /\ pc = "populated"
    /\ fn' = "parse_monster_drops"
    /\ LET loop == DropsLoop(self, self.monster_wikitext.drops_templates, self.drops)
       IN IF loop.raised
          THEN /\ self' = [self EXCEPT !.drops = loop.drops]
               /\ ret' = Raise("AttributeError")
               /\ pc' = "failed"
          ELSE /\ self' = [self EXCEPT
                      !.drops = loop.drops,
                      !.monster_dict =
                          Put(Put(self.monster_dict, "drops", ListVal(loop.drops)),
                              "rare_drop_table",
                              BoolVal(HasRareDropTable(self.monster_wikitext.text)))]
               /\ ret' = Return(NoneVal)
               /\ pc' = "drops_parsed"
    /\ UNCHANGED <<arg, stdout, log>>

-----------------------------------------------------------------------------
(* The pages with drop lines, and the item catalogs *)

RECURSIVE RenderPairs(_)
RenderPairs(pairs) ==
    IF pairs = <<>> THEN <<>>
    ELSE <<"|">> \o Head(pairs)[1] \o <<"=">> \o Head(pairs)[2] \o RenderPairs(Tail(pairs))

\* The wikitext of a drop line.
Render(pairs) == <<"{", "{", "D", "r", "o", "p", "s", "L", "i", "n", "e">> \o RenderPairs(pairs) \o <<"}", "}", "\n">>

\* The drop lines of the model, as the pairs of their texts: coins; bones;
\* the rare drop table in three spellings; noted bones marked members-only;
\* a herb no item is named after, marked members-only; dwarf remains; a
\* line without name.
DropLinePairs ==
    {<<<<<<"N", "a", "m", "e">>, <<"C", "o", "i", "n", "s">>>>, <<<<"Q", "u", "a", "n", "t", "i", "t", "y">>, <<"1", "5">>>>, <<<<"R", "a", "r", "i", "t", "y">>, <<"1", "/", "1", "2", "8">>>>>>,
     <<<<<<"N", "a", "m", "e">>, <<"B", "o", "n", "e", "s">>>>, <<<<"Q", "u", "a", "n", "t", "i", "t", "y">>, <<"1">>>>, <<<<"R", "a", "r", "i", "t", "y">>, <<"A", "l", "w", "a", "y", "s">>>>>>,
     <<<<<<"N", "a", "m", "e">>, <<"R", "a", "r", "e", " ", "d", "r", "o", "p", " ", "t", "a", "b", "l", "e">>>>, <<<<"R", "a", "r", "i", "t", "y">>, <<"1", "/", "1", "2", "8">>>>>>,
     <<<<<<"N", "a", "m", "e">>, <<"r", "a", "r", "e", " ", "d", "r", "o", "p", " ", "t", "a", "b", "l", "e">>>>, <<<<"R", "a", "r", "i", "t", "y">>, <<"1", "/", "1", "2", "8">>>>>>,
     <<<<<<"N", "a", "m", "e">>, <<"B", "o", "n", "e", "s">>>>, <<<<"N", "a", "m", "e", "n", "o", "t", "e", "s">>, <<"(", "n", "o", "t", "e", "d", ")", "{", "{", "m", "}", "}">>>>, <<<<"Q", "u", "a", "n", "t", "i", "t", "y">>, <<"1", " ", "(", "n", "o", "t", "e", "d", ")">>>>, <<<<"R", "a", "r", "i", "t", "y">>, <<"1", "/", "4">>>>, <<<<"R", "a", "r", "i", "t", "y", "n", "o", "t", "e", "s">>, <<"[", "[", "W", "i", "l", "d", "e", "r", "n", "e", "s", "s", "]", "]", " ", "o", "n", "l", "y">>>>>>,
     <<<<<<"N", "a", "m", "e">>, <<"G", "r", "i", "m", "y", " ", "h", "e", "r", "b">>>>, <<<<"N", "a", "m", "e", "n", "o", "t", "e", "s">>, <<"{", "{", "m", "}", "}">>>>, <<<<"Q", "u", "a", "n", "t", "i", "t", "y">>, <<"1">>>>>>,
     <<<<<<"N", "a", "m", "e">>, <<"D", "w", "a", "r", "f", " ", "r", "e", "m", "a", "i", "n", "s">>>>, <<<<"N", "a", "m", "e", "n", "o", "t", "e", "s">>, <<"{", "{", "m", "}", "}">>>>, <<<<"Q", "u", "a", "n", "t", "i", "t", "y">>, <<"1">>>>>>,
     <<<<<<"Q", "u", "a", "n", "t", "i", "t", "y">>, <<"1">>>>, <<<<"R", "a", "r", "i", "t", "y">>, <<"1", "/", "1", "2", "8">>>>>>}

RECURSIVE SeqsUpTo(_, _)
SeqsUpTo(S, n) ==
    IF n = 0 THEN {<<>>}
    ELSE LET less == SeqsUpTo(S, n - 1)
         IN less \cup {Append(q, x) : q \in less, x \in S}

RECURSIVE RenderAll(_)
RenderAll(lines) ==
    IF lines = <<>> THEN <<>> ELSE Render(Head(lines)) \o RenderAll(Tail(lines))

\* What follows the drop lines in the text of a page: nothing, the rare drop
\* table or the gem drop table.
DropTableMarkers ==
    {<<>>, <<"{", "{", "R", "a", "r", "e", "D", "r", "o", "p", "T", "a", "b", "l", "e", "|", "1", "/", "1", "2", "8", "}", "}">>, <<"{", "{", "G", "e", "m", "D", "r", "o", "p", "T", "a", "b", "l", "e", "}", "}">>}

\* The item catalogs: none; coins, bones and noted bones (members-only) in
\* two orders; dwarf remains (id 0) and a herb with the wiki name of the
\* drop.
Coins == Item(995, <<"C", "o", "i", "n", "s">>, <<"C", "o", "i", "n", "s">>, FALSE)
Bones == Item(526, <<"B", "o", "n", "e", "s">>, <<"B", "o", "n", "e", "s">>, FALSE)
NotedBones == Item(527, <<"B", "o", "n", "e", "s">>, <<"B", "o", "n", "e", "s">>, TRUE)
DwarfRemains == Item(0, <<"D", "w", "a", "r", "f", " ", "r", "e", "m", "a", "i", "n", "s">>, <<"D", "w", "a", "r", "f", " ", "r", "e", "m", "a", "i", "n", "s">>, TRUE)
Herb == Item(199, <<"H", "e", "r", "b">>, <<"G", "r", "i", "m", "y", " ", "h", "e", "r", "b">>, TRUE)
ItemCatalogs ==
    {<<>>,
     <<Coins, Bones, NotedBones>>,
     <<NotedBones, Bones, Coins>>,
     <<DwarfRemains, Herb, Bones>>}

\* A page with drop lines: the full infobox, of a members or of a free
\* monster, the drop lines and one of the markers.
DropPage(lines, marker, yes_or_no) ==
    [name |-> PageName,
     text |-> <<"=", "=", "D", "r", "o", "p", "s", "=", "=", "\n">> \o RenderAll(lines) \o marker,
     has_infobox |-> TRUE, is_versioned |-> FALSE, versioned_ids |-> EmptyDict,
     template |-> Put(FullTemplate, Members, yes_or_no),
     drops_templates |-> [i \in DOMAIN lines |-> DropsLine(lines[i])]]
YesOrNo == {<<"Y", "e", "s">>, <<"N", "o">>}

-----------------------------------------------------------------------------
(* BuildMonster: generate_monster_object and compare_json_files *)

\* MonsterDefinition(**monster_dict) and its construct_json(): the object
\* holds the properties of the dict, and construct_json gives a new dict of
\* them, the drops as a list of dicts.
MonsterDefinition(monster_dict) == monster_dict
construct_json(monster_definition) == monster_definition

\* generate_monster_object()
GenerateMonsterObject ==
    /\ pc = "drops_parsed"
    /\ fn' = "generate_monster_object"
    /\ self' = [self EXCEPT !.monster_definition = MonsterDefinition(self.monster_dict)]
    /\ ret' = Return(NoneVal)
    /\ pc' = "generated"
    /\ UNCHANGED <<arg, stdout, log>>

\* What print() writes: a line of text, or the str() of an object.
PrintedLine(text) == [t |-> "line", s |-> text]
PrintedObject(object) == [t |-> "object", v |-> object]

\* The elements of a list.
Elements(list) == {list[i] : i \in DOMAIN list}

\* Whether DeepDiff finds two values of a property different: two lists by
\* their elements (ignore_order=True), any other values by equality.
Differ(old, new) ==
    IF old.t = "list" /\ new.t = "list"
    THEN Elements(old.l) # Elements(new.l)
    ELSE old # new

\* A diff holds the kinds of findings that are not empty.
Finding(kind, found) == IF found = {} THEN EmptyDict ELSE (kind :> found)

\* DeepDiff(t1, t2, ignore_order=True) of two dicts of properties: the keys
\* added and removed and, for the other keys, the values that changed.
DeepDiffOfProperties(t1, t2) ==
    Finding("dictionary_item_added", DOMAIN t2 \ DOMAIN t1)
    @@ Finding("dictionary_item_removed", DOMAIN t1 \ DOMAIN t2)
    @@ Finding("values_changed",
               {[path |-> <<k>>, old_value |-> t1[k], new_value |-> t2[k]] :
                   k \in {k \in DOMAIN t1 \cap DOMAIN t2 : Differ(t1[k], t2[k])}})

\* The entries of one list of drops that equal no entry of the other list.
Unmatched(drops, others) == {d \in Elements(drops) : d \notin Elements(others)}

\* The ways DeepDiff may pair entries removed with entries added: no entry in
\* two pairs.  (Pairing entries that are similar is a heuristic of the
\* library, and not of all its versions: any pairing is a behaviour of the
\* model, no pair at all included.)
Pairings(removed, added) ==
    {pairs \in SUBSET (removed \X added) :
        \A p \in pairs, q \in pairs : (p[1] = q[1] \/ p[2] = q[2]) => p = q}

DropFields ==
    {"id", "name", "members", "quantity", "noted", "rarity", "drop_requirements"}

\* DeepDiff(t1, t2, ignore_order=True) of two lists of drops, for a pairing:
\* the fields that changed between the entries of a pair, and the entries
\* removed and added that are in no pair.
DeepDiffOfDrops(t1, t2, pairs) ==
    Finding("values_changed",
            {[path |-> <<p[1].name, f>>, old_value |-> p[1][f], new_value |-> p[2][f]] :
                <<p, f>> \in {<<p, f>> \in pairs \X DropFields : p[1][f] # p[2][f]}})
    @@ Finding("iterable_item_removed",
               {d \in Unmatched(t1, t2) : \A p \in pairs : p[1] # d})
    @@ Finding("iterable_item_added",
               {d \in Unmatched(t2, t1) : \A p \in pairs : p[2] # d})

\* `del ddiff_drops[...]` for the kinds that are there and not empty.
WithoutAddedAndRemoved(ddiff_drops) ==
    [k \in DOMAIN ddiff_drops \ {"iterable_item_added", "iterable_item_removed"} |->
        ddiff_drops[k]]

\* The header of a changed monster: its id and its name.
ChangedMonster(monster_definition) ==
    <<">", ">", ">", " ", "c", "o", "m", "p", "a", "r", "e", "_", "j", "s", "o", "n", "_", "f", "i", "l", "e", "s", ":", " ", "C", "H", "A", "N", "G", "E", "D", " ", "M", "O", "N", "S", "T", "E", "R", ":", " ">>
        \o StrOfNat(monster_definition["id"].n) \o <<":", " ">>
        \o monster_definition["name"].s
NewMonster(monster_definition) ==
    <<">", ">", ">", " ", "c", "o", "m", "p", "a", "r", "e", "_", "j", "s", "o", "n", "_", "f", "i", "l", "e", "s", ":", " ", "N", "E", "W", " ", "M", "O", "N", "S", "T", "E", "R", ":", " ">>
        \o StrOfNat(monster_definition["id"].n)
ChangedBaseProperties == <<" ", " ", ">", " ", "C", "H", "A", "N", "G", "E", "D", " ", "B", "A", "S", "E", " ", "P", "R", "O", "P", "E", "R", "T", "I", "E", "S", ".", ".", ".">>
ChangedDropProperties == <<" ", " ", ">", " ", "C", "H", "A", "N", "G", "E", "D", " ", "D", "R", "O", "P", " ", "P", "R", "O", "P", "E", "R", "T", "I", "E", "S", ".", ".", ".">>

\* A compare_json_files that takes every monster for a changed one.
compare_json_files_AlwaysChanged(b, monster_definition, pairs) ==
    [all_db_monster |-> b.all_db_monster,
     stdout |-> <<PrintedLine(ChangedMonster(monster_definition))>>,
     log |-> <<Logged("debug", ">>> compare_json_files: CHANGED MONSTER:")>>]

\* compare_json_files(monster_definition), for a pairing of DeepDiff: the
\* store after it, what it printed and what it logged.
compare_json_files(b, monster_definition, pairs) ==
    LET whole == construct_json(monster_definition)
        current_drops == whole["drops"]
        current_json == Without(whole, "drops")
        new_monster ==
            [all_db_monster |-> b.all_db_monster,
             stdout |-> <<PrintedLine(NewMonster(monster_definition)),
                          PrintedObject(current_json)>>,
             log |-> <<>>]
    IN IF b.monster_id \notin DOMAIN b.all_db_monster
       THEN new_monster
       ELSE IF "drops" \notin DOMAIN b.all_db_monster[b.monster_id]
       THEN new_monster             \* KeyError at existing_json["drops"]
       ELSE LET existing_drops == b.all_db_monster[b.monster_id]["drops"]
                existing_json == Without(b.all_db_monster[b.monster_id], "drops")
                \* `del existing_json["drops"]` is on the dict of the store
                all_db_monster == Put(b.all_db_monster, b.monster_id, existing_json)
                ddiff_props == DeepDiffOfProperties(existing_json, current_json)
                ddiff_drops == DeepDiffOfDrops(existing_drops.l, current_drops.l, pairs)
                kept == WithoutAddedAndRemoved(ddiff_drops)
            IN IF current_json = existing_json /\ current_drops = existing_drops
               THEN [all_db_monster |-> all_db_monster, stdout |-> <<>>, log |-> <<>>]
               ELSE [all_db_monster |-> all_db_monster,
                     stdout |->
                         <<PrintedLine(ChangedMonster(monster_definition))>>
                         \o (IF ddiff_props # EmptyDict
                             THEN <<PrintedLine(ChangedBaseProperties),
                                    PrintedObject(ddiff_props)>>
                             ELSE <<>>)
                         \o (IF ddiff_drops # EmptyDict
                             THEN <<PrintedLine(ChangedDropProperties)>>
                                  \o (IF kept # EmptyDict
                                      THEN <<PrintedObject(kept)>> ELSE <<>>)
                             ELSE <<>>),
                     log |-> <<Logged("debug", ">>> compare_json_files: CHANGED MONSTER:")>>]

\* The entries DeepDiff may pair in a comparison of the object with the
\* store.
PairingsOf(b) ==
    IF /\ b.monster_id \in DOMAIN b.all_db_monster
       /\ "drops" \in DOMAIN b.all_db_monster[b.monster_id]
    THEN Pairings(Unmatched(b.all_db_monster[b.monster_id]["drops"].l,
                            b.monster_definition["drops"].l),
                  Unmatched(b.monster_definition["drops"].l,
                            b.all_db_monster[b.monster_id]["drops"].l))
    ELSE {{}}

\* compare_new_vs_old_monster(): compare_json_files on the object generated.
\* It may be called again.
CompareNewVsOldMonster ==
    /\ pc \in {"generated", "compared"}
    /\ fn' = "compare_new_vs_old_monster"
    /\ \E pairs \in PairingsOf(self) :
          LET done == compare_json_files(self, self.monster_definition, pairs)
          IN /\ self' = [self EXCEPT !.all_db_monster = done.all_db_monster]
             /\ stdout' = done.stdout
             /\ log' = log \o done.log
    /\ ret' = Return(NoneVal)
    /\ pc' = "compared"
    /\ UNCHANGED arg

-----------------------------------------------------------------------------
(* One monster through the builder *)

\* The object for a monster whose wikitext is in one of the places.
BuilderOf(id, place, page, all_db_monster, all_db_items) ==
    BuildMonster(id,
        IF place \in {"id", "both"}
        THEN [k \in {StrOfNat(id)} |-> page] ELSE EmptyDict,
        IF place = "both"
        THEN [k \in {AllMonsterCacheData[StrOfNat(id)].name} |-> PageWithoutInfobox]
        ELSE IF place = "name"
        THEN [k \in {AllMonsterCacheData[StrOfNat(id)].name} |-> page]
        ELSE EmptyDict,
        all_db_monster, all_db_items)

-----------------------------------------------------------------------------
(* The records of earlier runs *)

\* The record the builder makes of a page that has an infobox and drop lines
\* with names: what construct_json gives after preprocessing,
\* populate_monster and parse_monster_drops.
RecordOf(id, page, all_db_items) ==
    CHOOSE record \in
        {Put(Put(populated.monster_dict,
                 "drops",
                 ListVal(DropsLoop(populated, page.drops_templates, <<>>).drops)),
             "rare_drop_table", BoolVal(HasRareDropTable(page.text))) :
            populated \in
                {populate_monster_properties_from_wiki_data(cached) :
                    cached \in
                        {populate_from_cache_data(preprocessed.self) :
                            preprocessed \in
                                {preprocessing(BuilderOf(id, "id", page, EmptyDict,
                                                         all_db_items), <<>>)}}}} :
        TRUE

\* The drop lines of the pages that are compared: coins, coins in another
\* quantity, bones, and a herb.
ComparedDropLines ==
    {<<<<<<"N", "a", "m", "e">>, <<"C", "o", "i", "n", "s">>>>, <<<<"Q", "u", "a", "n", "t", "i", "t", "y">>, <<"1", "5">>>>, <<<<"R", "a", "r", "i", "t", "y">>, <<"1", "/", "1", "2", "8">>>>>>,
     <<<<<<"N", "a", "m", "e">>, <<"C", "o", "i", "n", "s">>>>, <<<<"Q", "u", "a", "n", "t", "i", "t", "y">>, <<"2", "0">>>>, <<<<"R", "a", "r", "i", "t", "y">>, <<"1", "/", "1", "2", "8">>>>>>,
     <<<<<<"N", "a", "m", "e">>, <<"B", "o", "n", "e", "s">>>>, <<<<"Q", "u", "a", "n", "t", "i", "t", "y">>, <<"1">>>>, <<<<"R", "a", "r", "i", "t", "y">>, <<"A", "l", "w", "a", "y", "s">>>>>>,
     <<<<<<"N", "a", "m", "e">>, <<"G", "r", "i", "m", "y", " ", "h", "e", "r", "b">>>>, <<<<"N", "a", "m", "e", "n", "o", "t", "e", "s">>, <<"{", "{", "m", "}", "}">>>>, <<<<"Q", "u", "a", "n", "t", "i", "t", "y">>, <<"1">>>>, <<<<"R", "a", "r", "i", "t", "y">>, <<"1", "/", "1", "2", "8">>>>>>}


-----------------------------------------------------------------------------
(* The objects the model builds *)

\* The objects the model builds: any monster with its wikitext in any of the
\* places and any version-index mapping; the first monster with any of the
\* infoboxes, its wikitext under its id or under its name; the first monster
\* with a page of up to MaxDrops drop lines and any of the item catalogs;
\* the first monster with a page of drop lines and, in the store, its record
\* of an earlier run on a page with other drop lines or other members.
Constructed(b) ==
    \/ \E id \in MonsterIds, place \in WikitextPlaces, page \in Pages :
           b = BuilderOf(id, place, page, EmptyDict, <<>>)
    \/ \E place \in {"id", "name"}, versioned_ids \in InfoboxVersionedIds,
          template \in EditedTemplates(MaxEdits) :
           b = BuilderOf(1, place, InfoboxPage(versioned_ids, template), EmptyDict, <<>>)
    \/ \E lines \in SeqsUpTo(DropLinePairs, MaxDrops), marker \in DropTableMarkers,
          yes_or_no \in YesOrNo, all_db_items \in ItemCatalogs :
           b = BuilderOf(1, "id", DropPage(lines, marker, yes_or_no), EmptyDict, all_db_items)
    \/ \E lines \in SeqsUpTo(ComparedDropLines, MaxDrops),
          before \in SeqsUpTo(ComparedDropLines, MaxDrops), yes_or_no \in YesOrNo :
           /\ yes_or_no = <<"N", "o">> \/ before = lines
           /\ b = BuilderOf(1, "id", DropPage(lines, <<>>, <<"N", "o">>),
                  [id \in {1} |-> RecordOf(1, DropPage(before, <<>>, yes_or_no),
                                            <<Coins, Bones>>)],
                  <<Coins, Bones>>)

Init ==
    /\ fn = ""
    /\ arg = <<>>
    /\ ret = Return(NoneVal)
    /\ stdout = <<>>
    /\ Constructed(self)
    /\ pc = "constructed"
    /\ log = <<>>

Next ==
    \/ Preprocessing
    \/ PopulateMonster
    \/ ParseMonsterDrops
    \/ GenerateMonsterObject
    \/ CompareNewVsOldMonster

\* One monster through the builder.
Spec == Init /\ [][Next]_vars

\* C3: after a preprocessing that succeeded for a monster whose id is not in
\* the version-index mapping (the empty mapping included), the version suffix
\* is "1" when the template is versioned and "" when it is not: it is set.
C3_VersionSuffixDefaults ==
    pc = "preprocessed" /\ self.monster_id_int \notin DOMAIN self.versioned_ids =>
        self.infobox_version_number =
            IF self.is_versioned THEN StrVal(<<"1">>) ELSE StrVal(<<>>)

\* C3 where the mapping is not empty: the default is set.
C3_DefaultsWhenMappingNotEmpty ==
    /\ pc = "preprocessed"
    /\ DOMAIN self.versioned_ids # {}
    /\ self.monster_id_int \notin DOMAIN self.versioned_ids
    => self.infobox_version_number =
           IF self.is_versioned THEN StrVal(<<"1">>) ELSE StrVal(<<>>)

-----------------------------------------------------------------------------
(* Monsters without wikitext or without infobox *)

\* The wikitext preprocessing finds for the monster of self: the entry under
\* its id, else the entry under its name, else None.
WikitextOf(b) ==
    LET by_id == Get(b.all_wikitext_processed, StrOfNat(b.monster_id))
    IN IF by_id # NoneVal THEN by_id
       ELSE Get(b.all_wikitext_raw, b.all_monster_cache_data[StrOfNat(b.monster_id)].name)

\* There is no wikitext for the monster, or the wikitext holds no infobox.
MissingTemplate(b) ==
    WikitextOf(b) = NoneVal \/ ~WikitextOf(b).has_infobox

\* C12: a missing template is fatal for the monster only: preprocessing
\* returns False, after a log at critical severity and without raising,
\* whenever no wikitext is found by id or by name or the infobox cannot be
\* extracted; the record dictionary and the drop list are left empty.
C12_MissingTemplateSkipsTheMonster ==
    fn = "preprocessing" /\ MissingTemplate(self) =>
        /\ ret = Return(BoolVal(FALSE))
        /\ log # <<>>
        /\ log[Len(log)].level = "critical"
        /\ self.monster_dict = EmptyDict
        /\ self.drops = <<>>

\* preprocessing has returned False for a monster whose wikitext, found by
\* name, holds no infobox.
C12_Witness ==
    /\ fn = "preprocessing"
    /\ self.wikitext_found_using = StrVal(<<"n", "a", "m", "e">>)
    /\ ~self.monster_wikitext.has_infobox
    /\ ret = Return(BoolVal(FALSE))
    /\ log[Len(log)] = Logged("critical", "CRITICAL: Could not find template...")

-----------------------------------------------------------------------------
(* The record after populate_monster *)

\* The properties populate reads from the infobox with the versioned lookup.
ResolvedProperties == InfoboxProperties \o <<ExamineProperty>> \o combat_bonuses

\* The names populate_monster_properties_from_wiki_data leaves in the record.
WikiSourcedNames ==
    {ResolvedProperties[i].name : i \in DOMAIN ResolvedProperties}
        \cup {"wiki_name", "wiki_url", "slayer_monster", "slayer_masters", "incomplete"}

\* The template of self holds neither the key with the version suffix nor
\* the bare key.
NeitherKey(key) ==
    LET suffix == IF self.infobox_version_number.t = "None" THEN <<>>
                  ELSE self.infobox_version_number.s
    IN key \o suffix \notin DOMAIN self.template /\ key \notin DOMAIN self.template

\* C13: after the population of a fresh record every wiki-sourced property
\* has an entry; the incomplete flag is true exactly when one of the
\* resolved properties has neither its versioned nor its bare key in the
\* template; each such property holds its default.  (A property found after
\* a missing one does not reset the flag.)
C13_IncompleteIffAKeyIsMissing ==
    fn = "populate_monster" =>
        /\ WikiSourcedNames \subseteq DOMAIN self.monster_dict
        /\ self.monster_dict["incomplete"] =
               BoolVal(\E i \in DOMAIN ResolvedProperties :
                           NeitherKey(ResolvedProperties[i].key))
        /\ \A i \in DOMAIN ResolvedProperties :
               NeitherKey(ResolvedProperties[i].key) =>
                   self.monster_dict[ResolvedProperties[i].name] =
                       ResolvedProperties[i].default

\* A record populated from a template without the members key, bare or
\* versioned, and with every later key: members is absent and the flag is
\* still true at the end.
C13_Witness ==
    /\ fn = "populate_monster"
    /\ self.infobox_version_number = StrVal(<<"1">>)
    /\ NeitherKey(Members)
    /\ \A i \in 2..Len(ResolvedProperties) : ~NeitherKey(ResolvedProperties[i].key)
    /\ self.monster_dict["members"] = NoneVal
    /\ self.monster_dict["hitpoints"] = IntVal(50)
    /\ self.monster_dict["incomplete"] = BoolVal(TRUE)

\* The value populate found for a key is no number.
FoundMalformedNumber(key) ==
    LET value == ResolveField(self.template, self.infobox_version_number, key)
    IN value.t # "None" /\ ~ParseInt(clean_wikitext(value)).ok

\* C14: whenever the value found for hitpoints or for a combat stat is no
\* number, the property is absent or zero and the incomplete flag is true
\* after the population.
C14_MalformedValueSetsIncomplete ==
    fn = "populate_monster" =>
        \A i \in DOMAIN ResolvedProperties :
            LET p == ResolvedProperties[i]
            IN p.cleaner \in {"clean_integer", "clean_stats_value"}
               /\ FoundMalformedNumber(p.key) =>
                   /\ self.monster_dict[p.name] \in {NoneVal, IntVal(0)}
                   /\ self.monster_dict["incomplete"] = BoolVal(TRUE)

-----------------------------------------------------------------------------
(* The drops after parse_monster_drops *)

NameKey == <<"N", "a", "m", "e">>

\* The drop lines of the page of self, and whether each has a name.
DropLines == self.monster_wikitext.drops_templates
AllNamed == \A i \in DOMAIN DropLines : NameKey \in DOMAIN DropLines[i]

\* The display name of a drop line.
DropLineName(template) == Strip(template[NameKey])

\* The drop lines not named "rare drop table" in any case, in their order.
KeptLines ==
    SelectSeq(DropLines, LAMBDA t : Lower(DropLineName(t)) # RareDropTableName)

\* C15: the members flag of every drop is true if the monster is
\* members-only, else true if the resolved item is members-only, else true
\* if the name note of the line holds the members marker, else false.
C15_MembersPriorityChain ==
    fn = "parse_monster_drops" /\ AllNamed =>
        \A i \in DOMAIN self.drops :
            LET id == self.drops[i].id
                note == TemplateValue(KeptLines[i], <<"N", "a", "m", "e", "n", "o", "t", "e", "s">>)
            IN self.drops[i].members =
                   BoolVal(\/ self.monster_dict["members"] = BoolVal(TRUE)
                           \/ /\ id # NoneVal
                              /\ \E j \in DOMAIN self.all_db_items :
                                     /\ self.all_db_items[j].id = id.n
                                     /\ self.all_db_items[j].members
                           \/ /\ note # NoneVal
                              /\ Contains(note.s, <<"{", "{", "m", "}", "}">>))

\* The first entry of the catalog, in its order, whose name or wiki name is
\* the name.
FirstEntryNamed(catalog, name) ==
    LET hits == {j \in DOMAIN catalog :
                    catalog[j].name = name \/ catalog[j].wiki_name = name}
    IN IF hits = {} THEN 0 ELSE CHOOSE j \in hits : \A k \in hits : j <= k

\* C16: the id of every drop is the id of the first entry of the catalog
\* whose name or wiki name is exactly the display name of the drop line;
\* a drop without such an entry is in the list with an absent id, and
\* parse_monster_drops has not raised.
C16_FirstCatalogEntryOrAbsent ==
    fn = "parse_monster_drops" /\ AllNamed =>
        /\ ret = Return(NoneVal)
        /\ Len(self.drops) = Len(KeptLines)
        /\ \A i \in DOMAIN self.drops :
               LET first == FirstEntryNamed(self.all_db_items, DropLineName(KeptLines[i]))
               IN self.drops[i].id =
                      IF first = 0 THEN NoneVal ELSE IntVal(self.all_db_items[first].id)

\* With noted bones before bones in the catalog, the drop "Bones" has the id
\* of the noted bones, and the drop "Grimy herb", which no entry is named
\* after, is in the list with an absent id.
C16_Witness ==
    /\ fn = "parse_monster_drops"
    /\ ret = Return(NoneVal)
    /\ self.all_db_items = <<NotedBones, Bones, Coins>>
    /\ Len(self.drops) = 2
    /\ self.drops[1].name = StrVal(<<"B", "o", "n", "e", "s">>)
    /\ self.drops[1].id = IntVal(NotedBones.id)
    /\ self.drops[2].name = StrVal(<<"G", "r", "i", "m", "y", " ", "h", "e", "r", "b">>)
    /\ self.drops[2].id = NoneVal

\* C17: after parse_monster_drops the drop list holds one drop for each drop
\* line not named "rare drop table" in any case, in the order of the lines,
\* and no drop of that name; the list is the drops of the record.
C17_OneDropPerKeptLine ==
    fn = "parse_monster_drops" /\ AllNamed =>
        /\ Len(self.drops) = Len(KeptLines)
        /\ \A i \in DOMAIN self.drops :
               /\ self.drops[i].name = StrVal(DropLineName(KeptLines[i]))
               /\ Lower(self.drops[i].name.s) # RareDropTableName
        /\ self.monster_dict["drops"] = ListVal(self.drops)

\* A page with the lines "Rare drop table" and "Coins": the list holds the
\* coins alone.
C17_Witness ==
    /\ fn = "parse_monster_drops"
    /\ Len(DropLines) = 2
    /\ DropLineName(DropLines[1]) = <<"R", "a", "r", "e", " ", "d", "r", "o", "p", " ", "t", "a", "b", "l", "e">>
    /\ DropLineName(DropLines[2]) = <<"C", "o", "i", "n", "s">>
    /\ Len(self.drops) = 1
    /\ self.drops[1].name = StrVal(<<"C", "o", "i", "n", "s">>)

\* C18: after parse_monster_drops rare_drop_table is true exactly when the
\* lower-cased raw text of the page holds "{{raredroptable" or
\* "{{gemdroptable", whatever the drop lines are.
C18_RareDropTableFromRawText ==
    fn = "parse_monster_drops" /\ AllNamed =>
        self.monster_dict["rare_drop_table"] =
            BoolVal(\/ Contains(Lower(self.monster_wikitext.text), <<"{", "{", "r", "a", "r", "e", "d", "r", "o", "p", "t", "a", "b", "l", "e">>)
                    \/ Contains(Lower(self.monster_wikitext.text), <<"{", "{", "g", "e", "m", "d", "r", "o", "p", "t", "a", "b", "l", "e">>))

\* A page whose two drop lines are both named "rare drop table", in some
\* case, and whose text invokes neither table: no drop is kept and the flag
\* is false.
C18_Witness ==
    /\ fn = "parse_monster_drops"
    /\ AllNamed
    /\ Len(DropLines) = 2
    /\ self.drops = <<>>
    /\ self.monster_dict["rare_drop_table"] = BoolVal(FALSE)

-----------------------------------------------------------------------------
(* The report of compare_json_files *)

\* The record of the monster in the store, and whether it is one that
\* compare_json_files can compare with: a record with its drops.
PriorRecord == self.all_db_monster[self.monster_id]
HasPriorRecord ==
    /\ pc = "generated"
    /\ self.monster_id \in DOMAIN self.all_db_monster
    /\ "drops" \in DOMAIN PriorRecord
PriorDrops == PriorRecord["drops"].l
NewDrops == self.monster_definition["drops"].l

\* What was printed about the drop list: the object printed after the line
\* that opens the section of the drops, if any.
DropFindings(printed) ==
    IF \E i \in DOMAIN printed :
          /\ printed[i].t = "line" /\ printed[i].s = ChangedDropProperties
          /\ i < Len(printed)
    THEN printed[Len(printed)].v
    ELSE EmptyDict

\* An entry is retained when an entry of the other list has its name; the
\* entries of a list are told apart by their names.
NamesApart(drops) ==
    \A i \in DOMAIN drops, j \in DOMAIN drops : drops[i].name = drops[j].name => i = j
FieldChanges(old, new) ==
    {[path |-> <<d.name, f>>, old_value |-> d[f], new_value |-> e[f]] :
        <<d, e, f>> \in
            {<<d, e, f>> \in Elements(old) \X Elements(new) \X DropFields :
                d.name = e.name /\ d[f] # e[f]}}

\* C19: comparing with a prior record, what compare_json_files reports of the
\* drop list is exactly the fields that changed in the entries retained:
\* nothing when whole entries were added or removed and no retained entry
\* changed, and nothing about the entries added or removed.
C19_OnlyFieldChangesOfRetainedDrops ==
    [][(/\ HasPriorRecord
        /\ NamesApart(PriorDrops) /\ NamesApart(NewDrops)
        /\ fn' = "compare_new_vs_old_monster")
       => DropFindings(stdout') =
              Finding("values_changed", FieldChanges(PriorDrops, NewDrops))]_vars

\* C20: comparing with a prior record, when neither the properties other
\* than the drops nor the drop list differ, order aside, compare_json_files
\* prints nothing and logs nothing.
C20_EmptyDiffsReportNothing ==
    [][(/\ HasPriorRecord
        /\ DeepDiffOfProperties(Without(PriorRecord, "drops"),
                                Without(construct_json(self.monster_definition), "drops"))
               = EmptyDict
        /\ Elements(PriorDrops) = Elements(NewDrops)
        /\ fn' = "compare_new_vs_old_monster")
       => stdout' = <<>> /\ log' = log]_vars

\* C21: when the store has no record of the monster, compare_json_files
\* returns after it printed the line of a new monster and the properties of
\* the new record without its drops: no header of a changed monster is
\* printed or logged, no diff is printed, and nothing is raised.
C21_NoPriorRecordReportsNewMonster ==
    (/\ fn = "compare_new_vs_old_monster"
     /\ self.monster_id \notin DOMAIN self.all_db_monster)
    => /\ ret = Return(NoneVal)
       /\ stdout = <<PrintedLine(NewMonster(self.monster_definition)),
                     PrintedObject(Without(self.monster_definition, "drops"))>>
       /\ \A i \in DOMAIN log :
              log[i] # Logged("debug", ">>> compare_json_files: CHANGED MONSTER:")

\* A monster with drops compared with an empty store.
C21_Witness ==
    /\ fn = "compare_new_vs_old_monster"
    /\ self.all_db_monster = EmptyDict
    /\ Len(self.monster_definition["drops"].l) = 2
    /\ stdout[1] = PrintedLine(NewMonster(self.monster_definition))

\* C22: compare_json_files leaves the store as it was, the drops of every
\* record of it included.
C22_StoreIsReadOnly ==
    [][fn' = "compare_new_vs_old_monster"
       => self'.all_db_monster = self.all_db_monster]_vars

\* The kind of report of a call of compare_json_files: a new monster, a
\* changed monster, or nothing.
KindOfReport(printed) ==
    IF printed = <<>> THEN "nothing"
    ELSE IF printed[1] = PrintedLine(NewMonster(self.monster_definition)) THEN "new"
    ELSE "changed"

\* C27: over the calls of compare_json_files on a store that nothing else
\* writes, a new monster is reported only when the store has no record of
\* the monster, and a second call in a row reports the same kind as the
\* first.
C27_SameKindOfReportEveryCall ==
    [][fn' = "compare_new_vs_old_monster"
       => /\ KindOfReport(stdout') = "new"
                => self.monster_id \notin DOMAIN self.all_db_monster
          /\ pc = "compared" => KindOfReport(stdout') = KindOfReport(stdout)]_vars

=============================================================================
